---- MODULE Spec2Model ----
(***************************************************************************)
(* Coraline: the indexer driver (index_all, sync, index_file), the graph   *)
(* store (files, nodes, edges, unresolved_refs) and the reference          *)
(* resolver, as a state machine.  Every commit of the store is one step,   *)
(* so that a state of the model is a snapshot a concurrent reader can see. *)
(***************************************************************************)
EXTENDS Integers, Sequences, FiniteSets, Bags, TLC

(***************************************************************************)
(* Bounds of the model.                                                    *)
(***************************************************************************)
\* Edits of the project tree (content changes, touches, removals).
MaxEdits == 2
\* Transient store failures (SQLITE_BUSY, disk full, ...) injected per behaviour.
MaxFaults == 1
\* Completed index_all / sync runs per behaviour.
MaxRuns == 2
\* The rows one resolver pass reads.  The source hands resolve_unresolved the
\* cap 10_000; the model's texts leave at most three unresolved references, so
\* the cap is scaled down for a pass to meet it.
ResolveLimit == 2

(***************************************************************************)
(* Program constants.                                                      *)
(***************************************************************************)
\* config.max_file_size, in bytes (1024 * 1024).
MaxFileSize == 1048576

(***************************************************************************)
(* State.                                                                  *)
(*   fs, mtime  the project tree: the text and the modification time of    *)
(*              each path (NoFile: the path does not exist)                *)
(*   db         the store                                                  *)
(*   pc         the position of the running index_all / sync ("idle":      *)
(*              none is running)                                           *)
(*   run        the locals of the running index_all / sync                 *)
(*   prev       how the last completed run ended and what it left behind   *)
(*   edits, faults, runs   counters for the bounds                         *)
(*   peer       the position and the locals of a second indexing process   *)
(*              on the same store ("idle": none has been started)          *)
(*   proj       the project root outside the source tree: the data         *)
(*              directory and the database file, the git hooks, and the    *)
(*              result of the last command run on them                     *)
(*   sub        the graph, the arguments and the locals of build_subgraph  *)
(***************************************************************************)
VARIABLES fs, mtime, db, pc, run, prev, edits, faults, runs, peer, proj, sub

vars == << fs, mtime, db, pc, run, prev, edits, faults, runs, peer, proj, sub >>

(***************************************************************************)
(* The project tree.  A file's content is one of a few texts; a text is    *)
(* given by its size, whether it is valid UTF-8 and the concrete syntax    *)
(* tree the parser builds from it.                                         *)
(***************************************************************************)
Paths == {"a.rs", "b.rs", "a.ts", "x.php"}
NoFile == "absent"
None == "none"
\* The result of a lookup that finds no row (Option::None).
NoRow == [absent |-> TRUE]

Texts == {"A1", "A2", "BIG", "NOTREE", "B1", "B2", "BAD"}

TextsOf(p) ==
    CASE p = "a.rs" -> {"A1", "A2", "BIG", "NOTREE"}
      [] p = "b.rs" -> {"B1", "B2", "BAD"}
      [] OTHER      -> {}

\* The texts of the projects of SpecTrees.
TreeTextsOf(p) ==
    CASE p = "a.rs"  -> {"IMPLS", "ONELINE", "CALLS"}
      [] p = "a.ts"  -> {"TS_EXP", "TS_IMP", "TS_NEST"}
      [] p = "x.php" -> {"PHP1"}
      [] OTHER       -> {}

\* The length of the text in bytes.
ContentLen(c) ==
    CASE c = "A1"  -> 15
      [] c = "A2"  -> 23
      [] c = "B1"  -> 9
      [] c = "B2"  -> 30
      [] c = "BIG" -> MaxFileSize + 1
      [] OTHER     -> 1

IsUtf8(c) == c # "BAD"

\* extract_nodes, lines 349-351: Parser::parse returns no tree.
ParseFails(c) == c = "NOTREE"

Range(s) == {s[i] : i \in DOMAIN s}

RECURSIVE Concat(_)
Concat(ss) == IF ss = << >> THEN << >> ELSE Head(ss) \o Concat(Tail(ss))

SeqToBag(s) == [x \in Range(s) |-> Cardinality({i \in DOMAIN s : s[i] = x})]

(***************************************************************************)
(* Concrete syntax trees.  A tree node has its grammar kind, its start     *)
(* position, the text of the fields the extractor reads (None: the node    *)
(* has no such field) and its children.                                    *)
(***************************************************************************)
TsNode(kind, name, row, col, children) ==
    [kind |-> kind, name |-> name, alias |-> None, source |-> None, path |-> None,
     function |-> None, macro |-> None, text |-> None, import_clause |-> NoRow,
     row |-> row, col |-> col, children |-> children]

\* A call expression whose `function` field has the text callee.
CallNode(callee, row, col) ==
    [TsNode("call_expression", None, row, col, << >>) EXCEPT !.function = callee]

\* A macro invocation name!(...): the grammar gives it the field `macro`
\* and no field `function`.
MacroNode(name, row, col) ==
    [TsNode("macro_invocation", None, row, col, << >>) EXCEPT !.macro = name]

\* import { name } from "source"
ImportNode(name, source, row, col) ==
    [TsNode("import_declaration", None, row, col, << >>) EXCEPT
        !.source = source,
        !.import_clause =
            TsNode("import_clause", None, row, col + 7,
                   << TsNode("named_imports", None, row, col + 7,
                             << TsNode("import_specifier", name, row, col + 9, << >>) >>) >>)]

\* export { name } from "source"
ReExportNode(name, source, row, col) ==
    [TsNode("export_statement", None, row, col,
            << TsNode("export_clause", None, row, col + 7,
                      << TsNode("export_specifier", name, row, col + 9, << >>) >>) >>)
        EXCEPT !.source = source]

\* A1:  fn f() { g(); }
\* A2:  fn f() { g(); b::h(); }
\* B1:  fn g() {}
\* B2:  fn g() {}
\*      fn h() { g(); f(); }
\* IMPLS:    impl A { fn new() {} }
\*           impl B { fn new() {} }
\* ONELINE:  impl A { fn new() {} } impl B { fn new() {} }
\* CALLS:    fn a() { b(); new(); fn inner() { a(); } x!(); c(); }
\*           fn b() {}
\*           impl A { fn new() {} }
\*           impl B { fn new() {} }
\*           static S: u8 = b();
\* TS_EXP:   export function g() {}
\* TS_IMP:   import { g } from "./b";
\*           export { g } from "./b";
\*           function f() { g(); }
\* TS_NEST:  class A { m() { export function f() {} } }
\* BIG (longer than max_file_size), NOTREE (the parser yields no tree), BAD
\* (not UTF-8) and PHP1 (a language without a grammar) never get a tree.
Tree(c) ==
    CASE c = "A1" ->
            TsNode("source_file", None, 0, 0,
                << TsNode("function_item", "f", 0, 0, << CallNode("g", 0, 9) >>) >>)
      [] c = "A2" ->
            TsNode("source_file", None, 0, 0,
                << TsNode("function_item", "f", 0, 0,
                          << CallNode("g", 0, 9), CallNode("b::h", 0, 14) >>) >>)
      [] c = "B1" ->
            TsNode("source_file", None, 0, 0,
                << TsNode("function_item", "g", 0, 0, << >>) >>)
      [] c = "B2" ->
            TsNode("source_file", None, 0, 0,
                << TsNode("function_item", "g", 0, 0, << >>),
                   TsNode("function_item", "h", 1, 0,
                          << CallNode("g", 1, 9), CallNode("f", 1, 14) >>) >>)
      [] c = "IMPLS" ->
            TsNode("source_file", None, 0, 0,
                << TsNode("impl_item", None, 0, 0,
                          << TsNode("function_item", "new", 0, 9, << >>) >>),
                   TsNode("impl_item", None, 1, 0,
                          << TsNode("function_item", "new", 1, 9, << >>) >>) >>)
      [] c = "ONELINE" ->
            TsNode("source_file", None, 0, 0,
                << TsNode("impl_item", None, 0, 0,
                          << TsNode("function_item", "new", 0, 9, << >>) >>),
                   TsNode("impl_item", None, 0, 23,
                          << TsNode("function_item", "new", 0, 32, << >>) >>) >>)
      [] c = "CALLS" ->
            TsNode("source_file", None, 0, 0,
                << TsNode("function_item", "a", 0, 0,
                          << CallNode("b", 0, 9), CallNode("new", 0, 14),
                             TsNode("function_item", "inner", 0, 21,
                                    << CallNode("a", 0, 34) >>),
                             MacroNode("x", 0, 41), CallNode("c", 0, 47) >>),
                   TsNode("function_item", "b", 1, 0, << >>),
                   TsNode("impl_item", None, 2, 0,
                          << TsNode("function_item", "new", 2, 9, << >>) >>),
                   TsNode("impl_item", None, 3, 0,
                          << TsNode("function_item", "new", 3, 9, << >>) >>),
                   TsNode("static_item", "S", 4, 0, << CallNode("b", 4, 15) >>) >>)
      [] c = "TS_EXP" ->
            TsNode("program", None, 0, 0,
                << TsNode("export_statement", None, 0, 0,
                          << TsNode("function_declaration", "g", 0, 7, << >>) >>) >>)
      [] c = "TS_IMP" ->
            TsNode("program", None, 0, 0,
                << ImportNode("g", "./b", 0, 0),
                   ReExportNode("g", "./b", 1, 0),
                   TsNode("function_declaration", "f", 2, 0, << CallNode("g", 2, 15) >>) >>)
      [] c = "TS_NEST" ->
            TsNode("program", None, 0, 0,
                << TsNode("class_declaration", "A", 0, 0,
                     << TsNode("method_definition", "m", 0, 10,
                          << TsNode("export_statement", None, 0, 16,
                               << TsNode("function_declaration", "f", 0, 23, << >>) >>) >>) >>) >>)
      [] OTHER -> TsNode("ERROR", None, 0, 0, << >>)

(***************************************************************************)
(* utils.rs, extraction.rs, config.rs: hashing, identifiers, languages.    *)
(***************************************************************************)
\* SHA-256 of the text: distinct texts have distinct digests.
hash_sha256(c) == << "sha256", c >>

\* The digest of "<file_path>|<kind>|<qualified_name>|<start_line>".
node_id_for_symbol(file_path, kind, qualified_name, start_line) ==
    << "sha256", file_path, kind, qualified_name, start_line >>

\* Path::extension of the paths of the model.
Extension(path) ==
    CASE path \in {"a.rs", "b.rs"} -> "rs"
      [] path = "a.ts"             -> "ts"
      [] path = "x.php"            -> "php"
      [] OTHER                     -> ""

detect_language(path) ==
    CASE Extension(path) = "rs"  -> "rust"
      [] Extension(path) = "ts"  -> "typescript"
      [] Extension(path) = "php" -> "php"
      [] OTHER                   -> "unknown"

is_language_supported(language) ==
    language \in {"typescript", "javascript", "tsx", "jsx", "python", "go", "rust",
                  "java", "c", "cpp", "csharp", "php", "ruby", "swift", "kotlin",
                  "liquid", "blazor", "unknown"}

\* The grammar of the language, None when the build carries none for it.
language_to_parser(language) ==
    IF language \in {"php", "swift", "kotlin", "liquid", "markdown", "toml", "unknown"}
    THEN None
    ELSE language

\* Path::parent of a project-relative path: every path of the model is in the root.
Parent(path) ==
    CASE path \in {"src/a.rs", "src/c.rs"} -> "src"
      [] path \in {"lib/b.rs", "lib/d.rs"} -> "lib"
      [] OTHER                             -> ""

is_callable_kind(kind) == kind \in {"function", "method"}

JsLike == {"javascript", "jsx", "typescript", "tsx"}

\* (semantic kind, is_container) of a grammar kind.
map_node_kind(kind, language) ==
    LET Is(k, c) == [kind |-> k, is_container |-> c]
    IN  IF language = "rust" THEN
            CASE kind = "function_item"   -> Is("function", FALSE)
              [] kind = "struct_item"     -> Is("struct", TRUE)
              [] kind = "enum_item"       -> Is("enum", TRUE)
              [] kind = "trait_item"      -> Is("trait", TRUE)
              [] kind = "use_declaration" -> Is("import", FALSE)
              [] kind = "mod_item"        -> Is("module", TRUE)
              [] kind = "use_item"        -> Is("export", FALSE)
              [] OTHER                    -> Is(None, FALSE)
        ELSE IF language \in JsLike THEN
            CASE kind = "function_declaration"   -> Is("function", FALSE)
              [] kind = "class_declaration"      -> Is("class", TRUE)
              [] kind = "method_definition"      -> Is("method", FALSE)
              [] kind = "interface_declaration"  -> Is("interface", TRUE)
              [] kind = "type_alias_declaration" -> Is("typealias", FALSE)
              [] kind = "import_declaration"     -> Is("import", FALSE)
              [] kind \in {"export_statement", "export_declaration"} -> Is("export", FALSE)
              [] OTHER                           -> Is(None, FALSE)
        ELSE IF language = "blazor" THEN
            CASE kind = "element" -> Is("component", TRUE)
              [] OTHER            -> Is(None, FALSE)
        ELSE Is(None, FALSE)

is_call_expression(kind, language) ==
    IF language = "rust" THEN kind \in {"call_expression", "macro_invocation"}
    ELSE IF language \in JsLike THEN kind = "call_expression"
    ELSE FALSE

\* rsplit("::").next(): the last segment of a path text.
LastSegment(s) ==
    CASE s = "b::h"     -> "h"
      [] s = "crate::b" -> "b"
      [] OTHER          -> s

call_name(node, language) ==
    IF language = "rust" \/ language \in JsLike
    THEN IF node.function = None THEN None ELSE LastSegment(node.function)
    ELSE None

node_name(node) == node.name

node_key(kind, row, col, name) == << kind, row, col, name >>

(***************************************************************************)
(* extraction.rs: the two passes over the syntax tree.                     *)
(***************************************************************************)
FileNodeId(path) == node_id_for_symbol(path, "file", << path >>, 1)

\* A row of nodes.  qualified_name is the sequence of the segments that the
\* source joins with "::"; signature is the sequence of the parts of the text
\* (<< >>: NULL).
FileNode(path) ==
    [id |-> FileNodeId(path), kind |-> "file", name |-> path,
     qualified_name |-> << path >>, file_path |-> path, start_line |-> 1,
     signature |-> << >>]

SymbolNode(file_path, kind, name, qualified_name, row, signature) ==
    [id |-> node_id_for_symbol(file_path, kind, qualified_name, row + 1),
     kind |-> kind, name |-> name, qualified_name |-> qualified_name,
     file_path |-> file_path, start_line |-> row + 1, signature |-> signature]

EdgeAt(source, target, kind, node) ==
    [source |-> source, target |-> target, kind |-> kind,
     line |-> node.row + 1, col |-> node.col]

\* What pass 1 appends: nodes, edges, and the entries of the symbol index.
NoSymbols == [nodes |-> << >>, edges |-> << >>, index |-> << >>]

JoinSymbols(parts) ==
    [nodes |-> Concat([i \in 1..Len(parts) |-> parts[i].nodes]),
     edges |-> Concat([i \in 1..Len(parts) |-> parts[i].edges]),
     index |-> Concat([i \in 1..Len(parts) |-> parts[i].index])]

import_module_path(node, language) ==
    IF language = "rust" THEN node.path ELSE node.source

collect_import_specifier(node, module_path) ==
    IF node.name = None THEN << >>
    ELSE << [local_name |-> IF node.alias # None THEN node.alias ELSE node.name,
             module_path |-> module_path, export_name |-> node.name] >>

collect_named_imports(node, module_path) ==
    Concat([i \in 1..Len(node.children) |->
              IF node.children[i].kind = "import_specifier"
              THEN collect_import_specifier(node.children[i], module_path)
              ELSE << >>])

collect_import_symbols(node, module_path) ==
    Concat([i \in 1..Len(node.children) |->
              LET child == node.children[i]
              IN  CASE child.kind = "identifier" ->
                          << [local_name |-> child.text, module_path |-> module_path,
                              export_name |-> None] >>
                    [] child.kind = "namespace_import" ->
                          IF child.name = None /\ child.alias = None THEN << >>
                          ELSE << [local_name |-> IF child.name # None THEN child.name
                                                  ELSE child.alias,
                                   module_path |-> module_path, export_name |-> None] >>
                    [] child.kind = "named_imports" ->
                          collect_named_imports(child, module_path)
                    [] child.kind = "import_specifier" ->
                          collect_import_specifier(child, module_path)
                    [] OTHER -> << >>])

import_symbols(node, language) ==
    LET module_path == import_module_path(node, language)
    IN  IF module_path = None THEN << >>
        ELSE IF language \in JsLike
        THEN LET imports == IF node.import_clause = NoRow THEN << >>
                            ELSE collect_import_symbols(node.import_clause, module_path)
             IN  IF imports = << >>
                 THEN << [local_name |-> module_path, module_path |-> module_path,
                          export_name |-> None] >>
                 ELSE imports
        ELSE << [local_name |-> IF node.alias # None THEN node.alias
                                ELSE LastSegment(module_path),
                 module_path |-> module_path,
                 export_name |-> IF node.alias # None THEN LastSegment(module_path)
                                 ELSE None] >>

\* "<module_path>|export=<name>", or the module path alone.
build_import_signature(module_path, export_name) ==
    IF export_name # None THEN << module_path, "|export=", export_name >>
    ELSE << module_path >>

\* One Import node per imported binding, each with a Contains and an Imports
\* edge from parent_id.
add_import_nodes(node, language, file_path, parent_id) ==
    LET imports == import_symbols(node, language)
        NodeOf(i) ==
            SymbolNode(file_path, "import", imports[i].local_name,
                       << file_path, "import", imports[i].local_name, imports[i].module_path >>,
                       node.row,
                       build_import_signature(imports[i].module_path, imports[i].export_name))
    IN  [nodes |-> [i \in 1..Len(imports) |-> NodeOf(i)],
         edges |-> Concat([i \in 1..Len(imports) |->
                             << EdgeAt(parent_id, NodeOf(i).id, "contains", node),
                                EdgeAt(parent_id, NodeOf(i).id, "imports", node) >>]),
         index |-> << >>]

module_name(node, language) == IF language = "rust" THEN node.name ELSE None

\* <dir>/<name>.rs, when the project holds that file (the model has no
\* <name>/mod.rs).
rust_module_target(files, file_path, name) ==
    CASE name = "a" /\ "a.rs" \in files -> << "a.rs" >>
      [] name = "b" /\ "b.rs" \in files -> << "b.rs" >>
      [] OTHER -> << >>

add_module_node(node, files, language, file_path, parent_id) ==
    LET name == module_name(node, language)
        mod == SymbolNode(file_path, "module", name, << file_path, name >>, node.row,
                          IF language = "rust"
                          THEN rust_module_target(files, file_path, name)
                          ELSE << >>)
    IN  IF name = None THEN NoSymbols
        ELSE [nodes |-> << mod >>,
              edges |-> << EdgeAt(parent_id, mod.id, "contains", node) >>,
              index |-> << >>]

RECURSIVE collect_export_names(_)
collect_export_names(node) ==
    IF node.kind = "export_specifier"
    THEN IF node.alias # None THEN << node.alias >>
         ELSE IF node.name # None THEN << node.name >>
         ELSE << >>
    ELSE IF node.kind \in {"function_declaration", "class_declaration",
                           "interface_declaration", "type_alias_declaration",
                           "enum_declaration", "variable_declarator"}
    THEN IF node.name # None THEN << node.name >> ELSE << >>
    ELSE Concat([i \in 1..Len(node.children) |-> collect_export_names(node.children[i])])

\* The exported bindings, each with the module path of a re-export (None: a
\* local export).
export_symbols(node, language) ==
    IF language \in JsLike
    THEN LET names == collect_export_names(node)
         IN  [i \in 1..Len(names) |-> [name |-> names[i], module_path |-> node.source]]
    ELSE IF language = "rust"
    THEN IF node.path = None THEN << >>
         ELSE << [name |-> LastSegment(node.path), module_path |-> node.path] >>
    ELSE << >>

\* One Export node per exported binding, each with a Contains and an Exports
\* edge from parent_id.
add_export_nodes(node, language, file_path, parent_id) ==
    LET exports == export_symbols(node, language)
        NodeOf(i) ==
            SymbolNode(file_path, "export", exports[i].name,
                       << file_path, "export", exports[i].name >>, node.row,
                       IF exports[i].module_path = None THEN << >>
                       ELSE << exports[i].module_path >>)
    IN  [nodes |-> [i \in 1..Len(exports) |-> NodeOf(i)],
         edges |-> Concat([i \in 1..Len(exports) |->
                             << EdgeAt(parent_id, NodeOf(i).id, "contains", node),
                                EdgeAt(parent_id, NodeOf(i).id, "exports", node) >>]),
         index |-> << >>]

\* Pass 1.  parent_id is never None: extract_nodes passes the File node's id
\* and the walk replaces it only by the id of a container.
RECURSIVE walk_tree_collect(_, _, _, _, _, _)
walk_tree_collect(node, files, file_path, language, stack, parent_id) ==
    LET kind == map_node_kind(node.kind, language).kind
        is_container == map_node_kind(node.kind, language).is_container
        handled_export == kind = "export"
        name == IF handled_export \/ kind = None THEN None ELSE node_name(node)
        emits == kind # None /\ name # None
        symbol == SymbolNode(file_path, kind, name, << file_path >> \o stack \o << name >>,
                             node.row, << >>)
        own == IF emits
               THEN [nodes |-> << symbol >>,
                     edges |-> << EdgeAt(parent_id, symbol.id, "contains", node) >>,
                     index |-> IF is_callable_kind(kind)
                               THEN << [key |-> node_key(kind, node.row, node.col, name),
                                        name |-> name, id |-> symbol.id] >>
                               ELSE << >>]
               ELSE NoSymbols
        next_stack == IF emits /\ is_container THEN Append(stack, name) ELSE stack
        next_parent_id == IF emits /\ is_container THEN symbol.id ELSE parent_id
    IN  IF kind = "import" THEN add_import_nodes(node, language, file_path, parent_id)
        ELSE IF kind = "module"
        THEN add_module_node(node, files, language, file_path, parent_id)
        ELSE JoinSymbols(
                << IF handled_export
                   THEN add_export_nodes(node, language, file_path, parent_id)
                   ELSE NoSymbols,
                   own >>
                \o [i \in 1..Len(node.children) |->
                       walk_tree_collect(node.children[i], files, file_path, language,
                                         next_stack, next_parent_id)])

\* symbol_index.by_name: the ids of the file's callables with that short name.
by_name(index, name) ==
    LET Named(e) == e.name = name
        hits == SelectSeq(index, Named)
    IN  [i \in 1..Len(hits) |-> hits[i].id]

\* symbol_index.by_key: the id stored last under the key (NoRow: none).
by_key(index, key) ==
    LET at == {i \in DOMAIN index : index[i].key = key}
    IN  IF at = {} THEN NoRow
        ELSE [id |-> index[CHOOSE i \in at : \A j \in at : j <= i].id]

NoCalls == [edges |-> << >>, refs |-> << >>]

\* Pass 2: at a call expression inside a callable, a Calls edge when exactly
\* one callable of the file has the callee's name, otherwise an unresolved
\* reference carrying the candidates.  The result has what the walk of the
\* subtree appends to edges and unresolved_refs and the scope stack it
\* leaves.
RECURSIVE walk_tree_calls(_, _, _, _)
RECURSIVE walk_children_calls(_, _, _, _, _)
\* lines 681-692: the children from the k-th on, one after the other.
walk_children_calls(children, k, language, index, scope_stack) ==
    IF k > Len(children)
    THEN [edges |-> << >>, refs |-> << >>, scope_stack |-> scope_stack]
    ELSE LET first == walk_tree_calls(children[k], language, index, scope_stack)
             rest == walk_children_calls(children, k + 1, language, index,
                                         first.scope_stack)
         IN  [edges |-> first.edges \o rest.edges,
              refs |-> first.refs \o rest.refs,
              scope_stack |-> rest.scope_stack]

walk_tree_calls(node, language, index, scope_stack) ==
    LET kind == map_node_kind(node.kind, language).kind
        name == IF kind # None THEN node_name(node) ELSE None
        scoped == /\ kind # None
                  /\ name # None
                  /\ is_callable_kind(kind)
                  /\ by_key(index, node_key(kind, node.row, node.col, name)) # NoRow
        scope == IF scoped
                 THEN Append(scope_stack,
                             by_key(index, node_key(kind, node.row, node.col, name)).id)
                 ELSE scope_stack
        callee_name == call_name(node, language)
        targets == by_name(index, callee_name)
        own == IF /\ is_call_expression(node.kind, language)
                  /\ scope # << >>
                  /\ callee_name # None
               THEN IF Len(targets) = 1
                    THEN [edges |-> << EdgeAt(scope[Len(scope)], targets[1], "calls", node) >>,
                          refs |-> << >>]
                    ELSE [edges |-> << >>,
                          refs |-> << [from_node_id |-> scope[Len(scope)],
                                       reference_name |-> callee_name,
                                       reference_kind |-> "calls",
                                       line |-> node.row + 1, col |-> node.col,
                                       candidates |-> targets] >>]
               ELSE NoCalls
        below == walk_children_calls(node.children, 1, language, index, scope)
    IN  [edges |-> own.edges \o below.edges,
         refs |-> own.refs \o below.refs,
         scope_stack |-> IF scoped
                         THEN SubSeq(below.scope_stack, 1, Len(below.scope_stack) - 1)
                         ELSE below.scope_stack]

NoBatch == [nodes |-> << >>, edges |-> << >>, refs |-> << >>, index |-> << >>]

\* extract_nodes: (nodes, edges, unresolved references) of one file; all empty
\* when the language has no grammar or the parser yields no tree.  files are
\* the paths of the project (project_root, as far as rust_module_target looks).
extract_nodes(files, path, c) ==
    LET language == detect_language(path)
        symbols == walk_tree_collect(Tree(c), files, path, language, << >>,
                                     FileNodeId(path))
        calls == walk_tree_calls(Tree(c), language, symbols.index, << >>)
    IN  IF language_to_parser(language) = None \/ ParseFails(c)
        THEN NoBatch
        ELSE [nodes |-> symbols.nodes,
              edges |-> symbols.edges \o calls.edges,
              refs  |-> calls.refs,
              index |-> symbols.index]

\* extract_nodes, worked out once for every project, path and text.
Extracted ==
    [files \in SUBSET Paths |->
        [path \in Paths |->
            [c \in Texts \cup UNION {TreeTextsOf(p) : p \in Paths} |->
                extract_nodes(files, path, c)]]]

\* What extract_nodes returns for the path with text c in the project at hand.
ExtractedFrom(path, c) == Extracted[{p \in Paths : fs[p] # NoFile}][path][c]

(***************************************************************************)
(* db.rs: the store.  files and nodes are tables with a primary key,       *)
(* edges is a table without one (a bag of rows), unresolved_refs is kept   *)
(* in row-id order (an autoincrement key), which is the order LIMIT reads. *)
(***************************************************************************)
EmptyDb == [files |-> {}, nodes |-> {}, edges |-> EmptyBag, unresolved_refs |-> << >>]

NodeIds(d) == {n.id : n \in d.nodes}

get_file_record(d, path) ==
    IF \E f \in d.files : f.path = path
    THEN CHOOSE f \in d.files : f.path = path
    ELSE NoRow

get_node_by_id(d, id) ==
    IF \E n \in d.nodes : n.id = id
    THEN CHOOSE n \in d.nodes : n.id = id
    ELSE NoRow

find_nodes_by_name(d, name) == {n \in d.nodes : n.name = name}

\* SELECT ... FROM nodes WHERE kind = 'export' AND signature = ?.
find_exports_by_module(d, module_path) ==
    {n \in d.nodes : n.kind = "export" /\ n.signature = << module_path >>}

\* schema.sql: edges(source, target) REFERENCES nodes(id) ON DELETE CASCADE.
\* unresolved_refs has no foreign key: its rows outlive their source node.
CascadeEdges(edges, ids) ==
    [e \in {x \in BagToSet(edges) : x.source \notin ids /\ x.target \notin ids}
        |-> edges[e]]

\* schema.sql: nodes(id PRIMARY KEY).
NodesInsertable(d, batch) ==
    /\ \A i \in DOMAIN batch : batch[i].id \notin NodeIds(d)
    /\ \A i, j \in DOMAIN batch : batch[i].id = batch[j].id => i = j

\* schema.sql: the foreign keys of edges.
EdgesInsertable(d, batch) ==
    \A i \in DOMAIN batch :
        batch[i].source \in NodeIds(d) /\ batch[i].target \in NodeIds(d)

\* A variant of insert_edges that replaces the rows of the table by the batch.
insert_edges_Replacing(d, batch) ==
    IF EdgesInsertable(d, batch)
    THEN [d EXCEPT !.edges = SeqToBag(batch)]
    ELSE d

\* insert_nodes, lines 168-201: stmt.execute for the rows from position k on,
\* inside the transaction; `?` leaves the loop at the first row that the
\* primary key rejects.  ok: every row was stored; db: the tables as the
\* transaction sees them when the loop is left.
RECURSIVE insert_nodes_rows(_, _, _)
insert_nodes_rows(d, batch, k) ==
    IF k > Len(batch) THEN [ok |-> TRUE, db |-> d]
    ELSE IF batch[k].id \in NodeIds(d) THEN [ok |-> FALSE, db |-> d]
    ELSE insert_nodes_rows([d EXCEPT !.nodes = @ \cup {batch[k]}], batch, k + 1)

\* insert_edges, lines 216-230: the same loop; a row fails on a foreign key.
RECURSIVE insert_edges_rows(_, _, _)
insert_edges_rows(d, batch, k) ==
    IF k > Len(batch) THEN [ok |-> TRUE, db |-> d]
    ELSE IF batch[k].source \notin NodeIds(d) \/ batch[k].target \notin NodeIds(d)
    THEN [ok |-> FALSE, db |-> d]
    ELSE insert_edges_rows([d EXCEPT !.edges = @ (+) SetToBag({batch[k]})],
                           batch, k + 1)

\* insert_unresolved_refs, lines 249-263: the same loop; no constraint of the
\* table rejects a row.
RECURSIVE insert_unresolved_refs_rows(_, _, _)
insert_unresolved_refs_rows(d, batch, k) ==
    IF k > Len(batch) THEN [ok |-> TRUE, db |-> d]
    ELSE insert_unresolved_refs_rows(
             [d EXCEPT !.unresolved_refs = Append(@, batch[k])], batch, k + 1)

\* A variant of insert_nodes that keeps the rows stored before the failing one.
insert_nodes_NoRollback(d, batch) == insert_nodes_rows(d, batch, 1).db

\* One transaction: tx.commit() after the loop stores every row of the batch;
\* when `?` returns early the transaction is dropped, which rolls it back.
insert_nodes(d, batch) ==
    LET tx == insert_nodes_rows(d, batch, 1)
    IN  IF tx.ok THEN tx.db ELSE d

insert_edges(d, batch) ==
    LET tx == insert_edges_rows(d, batch, 1)
    IN  IF tx.ok THEN tx.db ELSE d

insert_unresolved_refs(d, batch) ==
    LET tx == insert_unresolved_refs_rows(d, batch, 1)
    IN  IF tx.ok THEN tx.db ELSE d

\* A variant of upsert_file that stores nothing.
upsert_file_Dropped(d, rec) == d

upsert_file(d, rec) ==
    [d EXCEPT !.files = {f \in @ : f.path # rec.path} \cup {rec}]

\* A variant of delete_file without its second DELETE: the File record stays.
delete_file_KeepsRecord(d, path) ==
    LET gone == {n.id : n \in {m \in d.nodes : m.file_path = path}}
    IN  [d EXCEPT !.nodes = {n \in @ : n.file_path # path},
                  !.edges = CascadeEdges(@, gone)]

\* One transaction: the nodes of the path (their edges cascade), the File record.
delete_file(d, path) ==
    LET gone == {n.id : n \in {m \in d.nodes : m.file_path = path}}
    IN  [d EXCEPT !.nodes = {n \in @ : n.file_path # path},
                  !.edges = CascadeEdges(@, gone),
                  !.files = {f \in @ : f.path # path}]

\* clear_database, lines 55-61: the statements of the batch, in order.
ClearStatements == << "unresolved_refs", "vectors", "edges", "nodes", "files" >>

\* DELETE FROM <table>, the k-th statement of the batch.  vectors is not among
\* the tables of this model; DELETE FROM nodes cascades to the edges.
clear_statement(d, k) ==
    CASE ClearStatements[k] = "unresolved_refs" -> [d EXCEPT !.unresolved_refs = << >>]
      [] ClearStatements[k] = "vectors" -> d
      [] ClearStatements[k] = "edges" -> [d EXCEPT !.edges = EmptyBag]
      [] ClearStatements[k] = "nodes" ->
            [d EXCEPT !.nodes = {}, !.edges = CascadeEdges(@, NodeIds(d))]
      [] ClearStatements[k] = "files" -> [d EXCEPT !.files = {}]

\* execute_batch runs the statements from the k-th on, each in its own
\* implicit transaction (the batch has no BEGIN).
RECURSIVE clear_from(_, _)
clear_from(d, k) ==
    IF k > Len(ClearStatements) THEN d ELSE clear_from(clear_statement(d, k), k + 1)

\* clear_database when no statement fails.
clear_database(d) == clear_from(d, 1)

\* SELECT ... FROM unresolved_refs LIMIT ?: the positions of the first rows.
list_unresolved_refs(d, limit) ==
    1..(IF Len(d.unresolved_refs) < limit THEN Len(d.unresolved_refs) ELSE limit)

\* DELETE FROM unresolved_refs WHERE id = ?, for each id, in one transaction.
delete_unresolved_refs(d, ids) ==
    LET keep == {i \in DOMAIN d.unresolved_refs : i \notin ids}
        Nth[k \in 0..Cardinality(keep)] ==
            IF k = 0 THEN 0
            ELSE CHOOSE i \in keep : i > Nth[k - 1] /\ \A j \in keep : j > Nth[k - 1] => i <= j
    IN  [d EXCEPT !.unresolved_refs =
            [k \in 1..Cardinality(keep) |-> d.unresolved_refs[Nth[k]]]]

(***************************************************************************)
(* resolution.rs: the reference resolver.                                  *)
(***************************************************************************)
filter_by_call_kind(nodes) == {n \in nodes : is_callable_kind(n.kind)}

\* (module_path, export_name) of an Import node's signature; NoRow when the
\* signature is empty.
parse_import_signature(signature) ==
    IF signature = << >> THEN NoRow
    ELSE IF Len(signature) = 3 /\ signature[2] = "|export="
    THEN [module_path |-> signature[1], export_name |-> signature[3]]
    ELSE [module_path |-> signature[1], export_name |-> None]

\* The hint of the first Import node of the caller's file that has the name
\* (the texts of the model import a name at most once per file).
import_match_hint(d, from_node, symbol_name) ==
    LET imports == {n \in find_nodes_by_name(d, symbol_name) :
                       n.kind = "import" /\ n.file_path = from_node.file_path}
        import_node == CHOOSE n \in imports : TRUE
    IN  IF imports = {} THEN NoRow
        ELSE IF parse_import_signature(import_node.signature) # NoRow
        THEN parse_import_signature(import_node.signature)
        ELSE [module_path |-> import_node.name, export_name |-> None]

\* trim_end_matches of ".ts", ".tsx", ".rs", and Path::file_stem, on the paths
\* and module paths of the model.
StripExt(s) ==
    CASE s = "a.rs" -> "a"
      [] s = "b.rs" -> "b"
      [] s = "a.ts" -> "a"
      [] s = "src/a.rs" -> "src/a"
      [] s = "src/c.rs" -> "src/c"
      [] s = "lib/b.rs" -> "lib/b"
      [] s = "lib/d.rs" -> "lib/d"
      [] OTHER      -> s

FileStem(path) ==
    CASE path = "a.rs"  -> "a"
      [] path = "b.rs"  -> "b"
      [] path = "a.ts"  -> "a"
      [] path = "x.php" -> "x"
      [] path = "src/a.rs" -> "a"
      [] path = "src/c.rs" -> "c"
      [] path = "lib/b.rs" -> "b"
      [] path = "lib/d.rs" -> "d"
      [] OTHER          -> path

\* str::ends_with on the extension-free paths and hints of the model.
EndsWith(s, suffix) == s = suffix \/ << s, suffix >> = << "lib/b", "b" >>

\* No path of the model ends with "/mod.rs".
matches_import_hint(file_path, hint) ==
    LET hint_clean == StripExt(LastSegment(hint))
    IN  \/ EndsWith(StripExt(file_path), hint_clean)
        \/ FileStem(file_path) = hint_clean

\* The Export nodes of the module with the name; NoRow when there is none.
export_candidates(d, module_path, export_name) ==
    LET exact == {n \in find_exports_by_module(d, module_path) : n.name = export_name}
    IN  IF exact = {} THEN NoRow ELSE [exports |-> exact]

\* rank_candidates without the ranking.
rank_candidates_Unranked(d, nodes, from_node, import_hint, symbol_name) == nodes

rank_candidates(d, nodes, from_node, import_hint, symbol_name) ==
    IF from_node = NoRow THEN nodes
    ELSE LET export_name == IF import_hint.export_name # None
                            THEN import_hint.export_name
                            ELSE symbol_name
             exports == export_candidates(d, import_hint.module_path, export_name)
             import_matches ==
                 {n \in nodes : /\ import_hint # NoRow
                                /\ matches_import_hint(n.file_path, import_hint.module_path)}
             rest      == nodes \ import_matches
             same_file == {n \in rest : n.file_path = from_node.file_path}
             same_dir  == {n \in rest \ same_file :
                              Parent(n.file_path) = Parent(from_node.file_path)}
             others    == (rest \ same_file) \ same_dir
         IN  IF import_hint # NoRow /\ exports # NoRow THEN exports.exports
             ELSE IF import_matches # {} THEN import_matches
             ELSE IF same_file # {} THEN same_file
             ELSE IF same_dir # {} THEN same_dir
             ELSE others

\* The candidates of one unresolved reference, ranked.
Candidates(d, ref) ==
    LET from_node == get_node_by_id(d, ref.from_node_id)
    IN  rank_candidates(
            d,
            IF ref.reference_kind = "calls"
            THEN filter_by_call_kind(find_nodes_by_name(d, ref.reference_name))
            ELSE find_nodes_by_name(d, ref.reference_name),
            from_node,
            IF from_node = NoRow THEN NoRow
            ELSE import_match_hint(d, from_node, ref.reference_name),
            ref.reference_name)

\* The row positions resolve_unresolved promotes: exactly one ranked candidate.
ResolvedIds(d, limit) ==
    {i \in list_unresolved_refs(d, limit) :
        Cardinality(Candidates(d, d.unresolved_refs[i])) = 1}

ResolvedEdge(d, i) ==
    LET ref == d.unresolved_refs[i]
        target == CHOOSE n \in Candidates(d, ref) : TRUE
    IN  [source |-> ref.from_node_id, target |-> target.id,
         kind |-> ref.reference_kind, line |-> ref.line, col |-> ref.col]

\* resolved_edges, one per promoted row (any order: the batch is one transaction).
ResolvedEdges(d, limit) ==
    LET ids == ResolvedIds(d, limit)
        Nth[k \in 0..Cardinality(ids)] ==
            IF k = 0 THEN 0
            ELSE CHOOSE i \in ids : i > Nth[k - 1] /\ \A j \in ids : j > Nth[k - 1] => i <= j
    IN  [k \in 1..Cardinality(ids) |-> ResolvedEdge(d, Nth[k])]

IdleRun ==
    [mode |-> None, force |-> FALSE, scan |-> {}, todo |-> {}, dels |-> {},
     tracked |-> {}, gone |-> None, cur |-> None, text |-> None, batch |-> NoBatch,
     fail_at |-> None,
     snap |-> EmptyDb, rsnap |-> EmptyDb,
     begun |-> {}, parsed |-> {}, failed |-> {}, resolved |-> {},
     files_indexed |-> 0, files_skipped |-> 0, errors |-> 0, warnings |-> 0,
     files_added |-> 0, files_modified |-> 0, files_removed |-> 0,
     aborted |-> FALSE, resolver |-> None, faulted |-> FALSE]

NoResult == [mode |-> None]

RowCounts(d) ==
    [files |-> Cardinality(d.files), nodes |-> Cardinality(d.nodes),
     edges |-> BagCardinality(d.edges), unresolved_refs |-> Len(d.unresolved_refs)]

\* scan_directory: the paths that exist (every path of the model is included).
scan_directory == {p \in Paths : fs[p] # NoFile}

(***************************************************************************)
(* The project root: bin/coraline.rs (init), db.rs (initialize_database,   *)
(* open_database), memory.rs (MemoryManager::new), sync.rs (the hooks).    *)
(***************************************************************************)
\* File contents of .git/hooks/post-commit and its backup: a hook of the
\* user, a hook of the user that has the marker line in it, what
\* post_commit_script returns, a file that a failed write left empty.
UserHooks == {"user", "user_marked"}

\* content.contains(CODEGRAPH_MARKER)
HasMarker(content) == content \in {"user_marked", "script"}

NoCommand == [op |-> None]

\* The memory files of .coraline/memories: << >> for a file that does not
\* exist, << content >> for one that does.
MemoryNames == {"notes"}
NoMemories == [name \in MemoryNames |-> << >>]

\* A project before `coraline init`.
NewProject ==
    [git |-> TRUE, data_dir |-> FALSE, codegraph_dir |-> FALSE, config |-> FALSE,
     database |-> "absent", init_ran |-> FALSE, runner |-> "coraline",
     hook |-> NoFile, hook_exec |-> FALSE, backup |-> NoFile, backup_exec |-> FALSE,
     original |-> NoFile, memories |-> NoMemories, server |-> "none",
     last |-> NoCommand]

\* The project that index_all and sync run on: `coraline init` has succeeded.
InitializedProject ==
    [NewProject EXCEPT !.data_dir = TRUE, !.config = TRUE, !.database = "schema",
                       !.init_ran = TRUE]

\* is_initialized: the data directory is a directory.
is_initialized == proj.data_dir


\* open_database: Connection::open with the default flags (read-write,
\* create) fails when the directory of the file is missing and creates the
\* file when only the file is missing; then the two PRAGMAs.
open_database ==
    IF ~proj.data_dir
    THEN [proj EXCEPT !.last = [op |-> "open_database", ok |-> FALSE,
                                uninitialized |-> ~proj.init_ran]]
    ELSE [proj EXCEPT !.database = IF @ = "absent" THEN "empty" ELSE @,
                      !.last = [op |-> "open_database", ok |-> TRUE,
                                uninitialized |-> ~proj.init_ran]]

\* install_hook, lines 72-143, on the project pr.  fail_at names the file
\* operation that fails (None: none), written what a failed fs::write leaves.
install_hook(pr, fail_at, written) ==
    LET failed == [op |-> "install_hook", success |-> FALSE]
        needs_backup == pr.hook # NoFile /\ ~HasMarker(pr.hook)
        backed == IF needs_backup
                  THEN [pr EXCEPT !.backup = pr.hook, !.backup_exec = pr.hook_exec]
                  ELSE pr
    IN  IF ~pr.git \/ fail_at = "mkdir" \/ (needs_backup /\ fail_at = "copy")
        THEN [pr EXCEPT !.last = failed]
        ELSE IF fail_at = "write"
        THEN [backed EXCEPT !.hook = written, !.last = failed]
        ELSE IF fail_at = "chmod"
        THEN [backed EXCEPT !.hook = "script", !.last = failed]
        ELSE [backed EXCEPT !.hook = "script", !.hook_exec = TRUE,
                            !.last = [op |-> "install_hook", success |-> TRUE]]

\* remove_hook, lines 145-194.
remove_hook(pr, fail_at) ==
    IF pr.hook = NoFile
    THEN [pr EXCEPT !.last = [op |-> "remove_hook", success |-> TRUE,
                              restored_from_backup |-> FALSE]]
    ELSE IF ~HasMarker(pr.hook) \/ fail_at = "remove"
    THEN [pr EXCEPT !.last = [op |-> "remove_hook", success |-> FALSE,
                              restored_from_backup |-> FALSE]]
    ELSE IF pr.backup # NoFile /\ fail_at # "rename"
    THEN [pr EXCEPT !.hook = pr.backup, !.hook_exec = pr.backup_exec,
                    !.backup = NoFile, !.backup_exec = FALSE,
                    !.last = [op |-> "remove_hook", success |-> TRUE,
                              restored_from_backup |-> TRUE]]
    ELSE [pr EXCEPT !.hook = NoFile, !.hook_exec = FALSE,
                    !.last = [op |-> "remove_hook", success |-> TRUE,
                              restored_from_backup |-> FALSE]]

\* run_init (without --index).  fail_at names the file operation that fails,
\* of init itself or of the install_hook it ends with unless --no-hooks is
\* given; a hook that cannot be installed is reported and init goes on.
run_init(pr, fail_at, no_hooks, written) ==
    LET failed == [op |-> "init", ok |-> FALSE]
        done == [pr EXCEPT !.data_dir = TRUE, !.config = TRUE, !.init_ran = TRUE,
                           !.database = "schema"]
    IN  IF pr.data_dir \/ fail_at = "dir" THEN [pr EXCEPT !.last = failed]
        ELSE IF fail_at = "config"
        THEN [pr EXCEPT !.data_dir = TRUE, !.last = failed]
        ELSE IF fail_at = "open"
        THEN [pr EXCEPT !.data_dir = TRUE, !.config = TRUE, !.init_ran = TRUE,
                        !.last = failed]
        ELSE IF fail_at = "schema"
        THEN [pr EXCEPT !.data_dir = TRUE, !.config = TRUE, !.init_ran = TRUE,
                        !.database = "empty", !.last = failed]
        ELSE [(IF no_hooks \/ ~pr.git THEN done
               ELSE install_hook(done, fail_at, written))
                 EXCEPT !.last = [op |-> "init", ok |-> TRUE]]

\* mcp.rs.  The server of a project is "none" (not started), "bare" (started
\* without a project root: no tool registry), "ready" (tool registry built,
\* init_error None) or "error" (init_error Some).
\* McpServer::new, lines 93-103: with a project root it builds the tool
\* registry; create_default_registry builds the memory tools, each of which
\* calls MemoryManager::new, which creates .coraline/memories.
McpServer_new(pr, with_root) ==
    IF with_root
    THEN [pr EXCEPT !.server = "ready", !.data_dir = TRUE,
                    !.last = [op |-> "serve"]]
    ELSE [pr EXCEPT !.server = "bare", !.last = [op |-> "serve"]]

\* The `initialize` request, lines 196-201: initialize_codegraph sets
\* init_error from is_initialized, then initialize_tools builds the registry.
handle_initialize(pr) ==
    [pr EXCEPT !.server = IF pr.data_dir THEN "ready" ELSE "error",
               !.data_dir = TRUE,
               !.last = [op |-> "initialize", initialized |-> pr.data_dir]]

\* The `tools/call` request, lines 232-238: refused with init_error or
\* without registry, run otherwise.
handle_tools_call(pr) ==
    [pr EXCEPT !.last = [op |-> "tools_call", initialized |-> pr.server = "ready"]]

\* run_index and run_sync, bin/coraline.rs: they exit when is_initialized is
\* false, and open the database otherwise.
run_index(pr, command) ==
    IF ~pr.data_dir
    THEN [pr EXCEPT !.last = [op |-> command, initialized |-> FALSE]]
    ELSE [pr EXCEPT !.database = IF @ = "absent" THEN "empty" ELSE @,
                    !.last = [op |-> command, initialized |-> TRUE]]

\* post_commit_script, lines 16-24: the script starts `sync --quiet` in the
\* background when .codegraph is a directory and coraline, or cargo with a
\* Cargo.toml, can run it.
post_commit_script ==
    proj.codegraph_dir /\ proj.runner # "none"

\* git runs an executable post-commit hook after each commit; sync_started
\* tells whether Coraline's script started a sync.
commit ==
    [proj EXCEPT !.last =
        [op |-> "commit",
         hook_ran |-> proj.hook # NoFile /\ proj.hook_exec,
         sync_started |-> /\ proj.hook = "script"
                          /\ proj.hook_exec
                          /\ post_commit_script]]

(***************************************************************************)
(* graph.rs: build_subgraph, a breadth-first walk over the stored edges.    *)
(* Option<T> is << >> for None and << v >> for Some(v).  The store conn     *)
(* has the nodes table and the edges table, the latter in row order, which *)
(* is the order LIMIT reads.                                               *)
(***************************************************************************)
unwrap_or(option, default) == IF option = << >> THEN default ELSE option[1]

\* The defaults of build_subgraph, lines 20-23.
DefaultMaxDepth == 1
DefaultLimit == 200

\* The first n elements of a sequence: what LIMIT n keeps of the rows.
Limited(rows, n) == IF Len(rows) <= n THEN rows ELSE SubSeq(rows, 1, n)

\* get_edges_by_source and get_edges_by_target: the rows of the edges table
\* with that source (target), of that kind when one is given, at most limit.
get_edges_by_source(conn, source_id, kind, limit) ==
    LET selected(e) == e.source = source_id /\ (kind = << >> \/ e.kind = kind[1])
    IN  Limited(SelectSeq(conn.edges, selected), limit)

get_edges_by_target(conn, target_id, kind, limit) ==
    LET selected(e) == e.target = target_id /\ (kind = << >> \/ e.kind = kind[1])
    IN  Limited(SelectSeq(conn.edges, selected), limit)

\* fetch_edges with every edge kind, whatever the filter.
fetch_edges_AllKinds(conn, node_id, outgoing, edge_kinds, limit) ==
    IF outgoing THEN get_edges_by_source(conn, node_id, << >>, limit)
    ELSE get_edges_by_target(conn, node_id, << >>, limit)

\* fetch_edges: one query per kind of the filter, in the filter's order, or
\* one query for all kinds.
RECURSIVE fetch_edges_kinds(_, _, _, _, _, _)
fetch_edges_kinds(conn, node_id, outgoing, kinds, limit, k) ==
    IF k > Len(kinds) THEN << >>
    ELSE (IF outgoing
          THEN get_edges_by_source(conn, node_id, << kinds[k] >>, limit)
          ELSE get_edges_by_target(conn, node_id, << kinds[k] >>, limit))
         \o fetch_edges_kinds(conn, node_id, outgoing, kinds, limit, k + 1)

fetch_edges(conn, node_id, outgoing, edge_kinds, limit) ==
    IF edge_kinds # << >>
    THEN fetch_edges_kinds(conn, node_id, outgoing, edge_kinds[1], limit, 1)
    ELSE IF outgoing THEN get_edges_by_source(conn, node_id, << >>, limit)
    ELSE get_edges_by_target(conn, node_id, << >>, limit)

\* visited.insert(node_id) is true when the id was not visited before.
visited_insert_Always(visited, node_id) == TRUE

visited_insert(visited, node_id) == node_id \notin visited

\* The test of line 61 that lets one more edge into the output.
below_limit_Always(edges, limit) == TRUE

below_limit(edges, limit) == Len(edges) < limit

\* queue.push_back with the entry put at the front instead.
push_back_Front(queue, entry) == << entry >> \o queue

\* queue.push_back, line 71.
push_back(queue, entry) == Append(queue, entry)

\* The for loop of lines 60-73 from the k-th fetched edge on: the output
\* edges and the queue it leaves.
RECURSIVE push_edges(_, _, _, _, _, _, _, _)
push_edges(edges, queue, next_edges, k, node_id, depth, max_depth, limit) ==
    IF k > Len(next_edges) \/ ~below_limit(edges, limit)
    THEN [edges |-> edges, queue |-> queue]
    ELSE LET edge == next_edges[k]
             next_id == IF edge.source = node_id THEN edge.target ELSE edge.source
             next_depth == depth + 1
         IN  push_edges(Append(edges, edge),
                        IF next_depth <= max_depth
                        THEN push_back(queue, << next_id, next_depth >>)
                        ELSE queue,
                        next_edges, k + 1, node_id, depth, max_depth, limit)

\* The store, the arguments and the locals of build_subgraph before any
\* call; expanded lists the ids whose edges were fetched, in order.
NewSub(conn) ==
    [pc |-> "idle", conn |-> conn, roots |-> << >>,
     max_depth |-> << >>, edge_kinds |-> << >>, node_kinds |-> << >>,
     direction |-> << >>, limit |-> << >>, include_start |-> << >>,
     nodes |-> {}, edges |-> << >>, visited |-> {}, queue |-> << >>,
     expanded |-> << >>]

IdleSub == NewSub([nodes |-> {}, edges |-> << >>])

\* Lines 16-30: the locals at the first test of the while loop.
build_subgraph_begin(s, roots, options) ==
    [NewSub(s.conn) EXCEPT
        !.pc = "loop", !.roots = roots,
        !.max_depth = options.max_depth, !.edge_kinds = options.edge_kinds,
        !.node_kinds = options.node_kinds, !.direction = options.direction,
        !.limit = options.limit, !.include_start = options.include_start,
        !.queue = [i \in DOMAIN roots |-> << roots[i], 0 >>]]

\* One iteration of the while loop, lines 32-74, on a non-empty queue.
\* (build_subgraph below runs the iterations to the end.)
build_subgraph_iterate(s) ==
    LET max_depth == unwrap_or(s.max_depth, DefaultMaxDepth)
        include_start == unwrap_or(s.include_start, TRUE)
        limit == unwrap_or(s.limit, DefaultLimit)
        direction == unwrap_or(s.direction, "both")
        node_id == Head(s.queue)[1]
        depth == Head(s.queue)[2]
        popped == [s EXCEPT !.queue = Tail(s.queue)]
        node == get_node_by_id(s.conn, node_id)
        loaded == /\ include_start \/ depth > 0
                  /\ node # NoRow
                  /\ \/ s.node_kinds = << >>
                     \/ \E i \in DOMAIN s.node_kinds[1] : s.node_kinds[1][i] = node.kind
        seen == [popped EXCEPT !.visited = @ \cup {node_id},
                               !.nodes = IF loaded THEN @ \cup {node_id} ELSE @]
        next_edges ==
            (IF direction # "incoming"
             THEN fetch_edges(s.conn, node_id, TRUE, s.edge_kinds, limit)
             ELSE << >>)
            \o (IF direction # "outgoing"
                THEN fetch_edges(s.conn, node_id, FALSE, s.edge_kinds, limit)
                ELSE << >>)
        pushed == push_edges(s.edges, seen.queue, next_edges, 1,
                             node_id, depth, max_depth, limit)
    IN  IF depth > max_depth THEN popped
        ELSE IF ~visited_insert(s.visited, node_id) THEN popped
        ELSE IF Len(s.edges) >= limit THEN [seen EXCEPT !.pc = "done"]
        ELSE [seen EXCEPT !.edges = pushed.edges, !.queue = pushed.queue,
                          !.expanded = Append(@, node_id)]

\* build_subgraph: the locals when the call returns.
RECURSIVE build_subgraph_loop(_)
build_subgraph_loop(s) ==
    IF s.pc = "done" THEN s
    ELSE IF s.queue = << >> THEN [s EXCEPT !.pc = "done"]
    ELSE build_subgraph_loop(build_subgraph_iterate(s))

build_subgraph(conn, roots, options) ==
    build_subgraph_loop(build_subgraph_begin(NewSub(conn), roots, options))

\* The locals of the second process before it is started.
IdlePeer ==
    [pc |-> "idle", todo |-> {}, cur |-> None, text |-> None, batch |-> NoBatch,
     errors |-> 0]

Init ==
    /\ fs \in [Paths -> {"A1", "A2", "B1", "B2", NoFile}]
    /\ \A p \in Paths : IF TextsOf(p) = {} THEN fs[p] = NoFile ELSE fs[p] \in TextsOf(p)
    /\ mtime = [p \in Paths |-> 0]
    /\ db = EmptyDb
    /\ pc = "idle"
    /\ run = IdleRun
    /\ prev = NoResult
    /\ edits = 0
    /\ faults = 0
    /\ runs = 0
    /\ peer = IdlePeer
    /\ proj = InitializedProject
    /\ sub = IdleSub

(***************************************************************************)
(* The environment: the project tree changes between runs.                 *)
(***************************************************************************)
MarkChanged(res) == IF res.mode = None THEN res ELSE [res EXCEPT !.changed = TRUE]

\* A path is created, rewritten or removed.
EditFile(p, c) ==
    /\ pc = "idle"
    /\ edits < MaxEdits
    /\ c \in TextsOf(p) \cup {NoFile}
    /\ c # fs[p]
    /\ fs' = [fs EXCEPT ![p] = c]
    /\ edits' = edits + 1
    /\ prev' = MarkChanged(prev)
    /\ UNCHANGED << mtime, db, pc, run, faults, runs, peer, proj, sub >>

\* The modification time of a path changes, its text does not.
TouchFile(p) ==
    /\ pc = "idle"
    /\ edits < MaxEdits
    /\ fs[p] # NoFile
    /\ mtime' = [mtime EXCEPT ![p] = 1 - @]
    /\ edits' = edits + 1
    /\ UNCHANGED << fs, db, pc, run, prev, faults, runs, peer, proj, sub >>

(***************************************************************************)
(* extraction.rs: index_all and sync up to their per-file loop.            *)
(***************************************************************************)
StartIndexAll(force) ==
    /\ pc = "idle"
    /\ runs < MaxRuns
    /\ db' = IF force THEN clear_database(db) ELSE db
    /\ run' = [IdleRun EXCEPT !.mode = "index_all", !.force = force,
                              !.scan = scan_directory, !.todo = scan_directory,
                              !.tracked = db'.files]
    /\ pc' = "loop"
    /\ UNCHANGED << fs, mtime, prev, edits, faults, runs, peer, proj, sub >>

StartSync ==
    /\ pc = "idle"
    /\ runs < MaxRuns
    /\ run' = [IdleRun EXCEPT !.mode = "sync",
                              !.scan = scan_directory, !.todo = scan_directory,
                              !.tracked = db.files,
                              !.dels = {f.path : f \in db.files} \ scan_directory]
    /\ pc' = IF run'.dels = {} THEN "loop" ELSE "sync_delete"
    /\ UNCHANGED << fs, mtime, db, prev, edits, faults, runs, peer, proj, sub >>

\* sync, lines 179-184: delete_file for a tracked path the scan did not find.
SyncDeleteFile(p) ==
    /\ pc = "sync_delete"
    /\ p \in run.dels
    /\ db' = delete_file(db, p)
    /\ run' = [run EXCEPT !.dels = @ \ {p}, !.files_removed = @ + 1,
                          !.gone = p, !.snap = db]
    /\ pc' = IF run'.dels = {} THEN "loop" ELSE "sync_delete"
    /\ UNCHANGED << fs, mtime, prev, edits, faults, runs, peer, proj, sub >>

(***************************************************************************)
(* extraction.rs: one file of the loop.  index_file commits five times:    *)
(* delete_file, insert_nodes, insert_edges, insert_unresolved_refs and     *)
(* upsert_file; each commit is a step.                                     *)
(***************************************************************************)
TrackedRecord(tracked, p) ==
    IF \E f \in tracked : f.path = p
    THEN CHOOSE f \in tracked : f.path = p
    ELSE NoRow

\* sync, lines 196-215: "err" (the text cannot be read), "skip" (tracked with
\* the same content hash) or "index" (index_file is called).
sync_check(tracked, p, c) ==
    IF ~IsUtf8(c) THEN "err"
    ELSE IF /\ TrackedRecord(tracked, p) # NoRow
            /\ TrackedRecord(tracked, p).content_hash = hash_sha256(c)
         THEN "skip"
         ELSE "index"

\* A variant of index_file_check that also takes a changed modification time
\* for a change of the file.
index_file_check_ByMtime(d, p, c) ==
    IF ~IsUtf8(c) THEN "err"
    ELSE IF ContentLen(c) > MaxFileSize THEN "none"
    ELSE IF ~is_language_supported(detect_language(p)) THEN "none"
    ELSE IF /\ get_file_record(d, p) # NoRow
            /\ get_file_record(d, p).content_hash = hash_sha256(c)
            /\ get_file_record(d, p).modified_at = mtime[p]
         THEN "none"
         ELSE "go"

\* A variant of index_file_check without the size check of line 239.
index_file_check_NoSizeLimit(d, p, c) ==
    IF ~IsUtf8(c) THEN "err"
    ELSE IF ~is_language_supported(detect_language(p)) THEN "none"
    ELSE IF /\ get_file_record(d, p) # NoRow
            /\ get_file_record(d, p).content_hash = hash_sha256(c)
         THEN "none"
         ELSE "go"

\* index_file, lines 236-254: "err", "none" (Ok(None)) or "go" (parse and write).
index_file_check(d, p, c) ==
    IF ~IsUtf8(c) THEN "err"
    ELSE IF ContentLen(c) > MaxFileSize THEN "none"
    ELSE IF ~is_language_supported(detect_language(p)) THEN "none"
    ELSE IF /\ get_file_record(d, p) # NoRow
            /\ get_file_record(d, p).content_hash = hash_sha256(c)
         THEN "none"
         ELSE "go"

\* What the loop does with path p: "skip", "err", "none" or "go".
FileOutcome(p) ==
    IF run.mode = "sync" /\ sync_check(run.tracked, p, fs[p]) # "index"
    THEN sync_check(run.tracked, p, fs[p])
    ELSE index_file_check(db, p, fs[p])

\* index_file gets as far as get_file_record for path p.
ReachesStore(p) ==
    /\ run.mode = "sync" => sync_check(run.tracked, p, fs[p]) = "index"
    /\ IsUtf8(fs[p])
    /\ ContentLen(fs[p]) <= MaxFileSize
    /\ is_language_supported(detect_language(p))

\* index_all, lines 123-134, and sync's `?`: index_file returned Ok(None) / Err.
AfterNone(r) ==
    IF r.mode = "index_all" THEN [r EXCEPT !.files_skipped = @ + 1] ELSE r

AfterErr(r, at) ==
    IF r.mode = "index_all"
    THEN [r EXCEPT !.errors = @ + 1, !.failed = @ \cup {r.cur}, !.fail_at = at]
    ELSE [r EXCEPT !.aborted = TRUE, !.failed = @ \cup {r.cur}, !.fail_at = at]

\* A variant of AfterSome in which sync counts every indexed file as added.
AfterSome_AllAdded(r, node_count) ==
    IF r.mode = "index_all"
    THEN IF node_count > 0
         THEN [r EXCEPT !.files_indexed = @ + 1]
         ELSE [r EXCEPT !.files_skipped = @ + 1]
    ELSE [r EXCEPT !.files_added = @ + 1]

\* index_all, lines 114-121, and sync, lines 203-214: index_file returned Ok(Some).
AfterSome(r, node_count) ==
    IF r.mode = "index_all"
    THEN IF node_count > 0
         THEN [r EXCEPT !.files_indexed = @ + 1]
         ELSE [r EXCEPT !.files_skipped = @ + 1]
    ELSE IF TrackedRecord(r.tracked, r.cur) # NoRow
         THEN [r EXCEPT !.files_modified = @ + 1]
         ELSE [r EXCEPT !.files_added = @ + 1]

PcAfterFile(r) == IF r.aborted THEN "return" ELSE "loop"

\* index_file, lines 256-303: the batches built from what extract_nodes returned.
NodesBatch == << FileNode(run.cur) >> \o run.batch.nodes
EdgesBatch == run.batch.edges
RefsBatch == run.batch.refs

\* A variant of FileRecordOf that records the hash of another text.
FileRecordOf_StaleHash(p, c, node_count) ==
    [path |-> p, content_hash |-> hash_sha256(None), modified_at |-> mtime[p],
     node_count |-> node_count]

FileRecordOf(p, c, node_count) ==
    [path |-> p, content_hash |-> hash_sha256(c), modified_at |-> mtime[p],
     node_count |-> node_count]

\* The next commit of index_file after `stage`: empty batches are not written.
PcAfter(stage) ==
    IF stage = "nodes" /\ EdgesBatch # << >> THEN "edges"
    ELSE IF stage \in {"nodes", "edges"} /\ RefsBatch # << >> THEN "refs"
    ELSE "record"

\* The loop takes the next path: the checks of sync and index_file, and
\* delete_file when the path is tracked with another content hash.
IndexFileBegin(p) ==
    /\ pc = "loop"
    /\ p \in run.todo
    /\ LET out == FileOutcome(p)
           r == [run EXCEPT !.todo = @ \ {p}, !.cur = p, !.text = fs[p],
                            !.batch = IF out = "go" THEN ExtractedFrom(p, fs[p])
                                      ELSE NoBatch,
                            !.fail_at = None, !.gone = None,
                            !.snap = db, !.begun = @ \cup {p}]
       IN  /\ db' = IF out = "go" /\ get_file_record(db, p) # NoRow
                    THEN delete_file(db, p)
                    ELSE db
           /\ run' = CASE out = "go"   -> [r EXCEPT !.parsed = @ \cup {p}]
                       [] out = "none" -> AfterNone(r)
                       [] out = "err"  -> AfterErr(r, "read")
                       [] OTHER        -> r
           /\ pc' = IF out = "go" THEN "nodes" ELSE PcAfterFile(run')
    /\ UNCHANGED << fs, mtime, prev, edits, faults, runs, peer, proj, sub >>

InsertNodesStep ==
    /\ pc = "nodes"
    /\ IF NodesInsertable(db, NodesBatch)
       THEN /\ db' = insert_nodes(db, NodesBatch)
            /\ pc' = PcAfter("nodes")
            /\ run' = run
       ELSE /\ db' = insert_nodes(db, NodesBatch)
            /\ run' = AfterErr(run, "nodes")
            /\ pc' = PcAfterFile(run')
    /\ UNCHANGED << fs, mtime, prev, edits, faults, runs, peer, proj, sub >>

InsertEdgesStep ==
    /\ pc = "edges"
    /\ IF EdgesInsertable(db, EdgesBatch)
       THEN /\ db' = insert_edges(db, EdgesBatch)
            /\ pc' = PcAfter("edges")
            /\ run' = run
       ELSE /\ db' = insert_edges(db, EdgesBatch)
            /\ run' = AfterErr(run, "edges")
            /\ pc' = PcAfterFile(run')
    /\ UNCHANGED << fs, mtime, prev, edits, faults, runs, peer, proj, sub >>

InsertRefsStep ==
    /\ pc = "refs"
    /\ db' = insert_unresolved_refs(db, RefsBatch)
    /\ pc' = "record"
    /\ UNCHANGED << fs, mtime, run, prev, edits, faults, runs, peer, proj, sub >>

UpsertFileStep ==
    /\ pc = "record"
    /\ db' = upsert_file(db, FileRecordOf(run.cur, run.text, Len(NodesBatch)))
    /\ run' = AfterSome(run, Len(NodesBatch))
    /\ pc' = "loop"
    /\ UNCHANGED << fs, mtime, prev, edits, faults, runs, peer, proj, sub >>

\* A store operation of index_file fails (the statement or its commit): its
\* transaction rolls back, index_file returns the error.
StoreFault ==
    /\ pc \in {"nodes", "edges", "refs", "record"}
    /\ faults < MaxFaults
    /\ faults' = faults + 1
    /\ run' = AfterErr([run EXCEPT !.faulted = TRUE], pc)
    /\ pc' = PcAfterFile(run')
    /\ UNCHANGED << fs, mtime, db, prev, edits, runs, peer, proj, sub >>

\* get_file_record or delete_file fails at the start of index_file.
IndexFileFault(p) ==
    /\ pc = "loop"
    /\ p \in run.todo
    /\ ReachesStore(p)
    /\ faults < MaxFaults
    /\ faults' = faults + 1
    /\ run' = AfterErr([run EXCEPT !.todo = @ \ {p}, !.cur = p, !.text = fs[p],
                                   !.gone = None,
                                   !.snap = db, !.begun = @ \cup {p},
                                   !.faulted = TRUE], "begin")
    /\ pc' = PcAfterFile(run')
    /\ UNCHANGED << fs, mtime, db, prev, edits, runs, peer, proj, sub >>

\* delete_file fails in sync's removal loop: sync returns the error.
SyncDeleteFault ==
    /\ pc = "sync_delete"
    /\ faults < MaxFaults
    /\ faults' = faults + 1
    /\ run' = [run EXCEPT !.aborted = TRUE, !.faulted = TRUE]
    /\ pc' = "return"
    /\ UNCHANGED << fs, mtime, db, prev, edits, runs, peer, proj, sub >>

(***************************************************************************)
(* resolution.rs: resolve_unresolved, called when the loop is over.  It    *)
(* commits twice: insert_edges, then delete_unresolved_refs.               *)
(***************************************************************************)
\* index_all, lines 138-146 (a Warning); sync, line 218 (the result is dropped).
ResolverErr(r) ==
    IF r.mode = "index_all"
    THEN [r EXCEPT !.resolver = "err", !.warnings = @ + 1]
    ELSE [r EXCEPT !.resolver = "err"]

\* list_unresolved_refs, the ranking of every row read, insert_edges.
ResolveStep ==
    /\ pc = "loop"
    /\ run.todo = {}
    /\ LET edges == ResolvedEdges(db, ResolveLimit)
           r == [run EXCEPT !.rsnap = db]
       IN  IF edges = << >>
           THEN /\ db' = db
                /\ run' = [r EXCEPT !.resolver = "ok"]
                /\ pc' = "return"
           ELSE IF EdgesInsertable(db, edges)
                THEN /\ db' = insert_edges(db, edges)
                     /\ run' = [r EXCEPT !.resolved = ResolvedIds(db, ResolveLimit)]
                     /\ pc' = "resolve_delete"
                ELSE /\ db' = insert_edges(db, edges)
                     /\ run' = ResolverErr(r)
                     /\ pc' = "return"
    /\ UNCHANGED << fs, mtime, prev, edits, faults, runs, peer, proj, sub >>

ResolveDeleteStep ==
    /\ pc = "resolve_delete"
    /\ db' = delete_unresolved_refs(db, run.resolved)
    /\ run' = [run EXCEPT !.resolver = "ok"]
    /\ pc' = "return"
    /\ UNCHANGED << fs, mtime, prev, edits, faults, runs, peer, proj, sub >>

\* A store operation of the resolver fails: resolve_unresolved returns the error.
ResolveFault ==
    /\ \/ pc = "loop" /\ run.todo = {}
       \/ pc = "resolve_delete"
    /\ faults < MaxFaults
    /\ faults' = faults + 1
    /\ run' = ResolverErr([run EXCEPT !.faulted = TRUE,
                                      !.rsnap = IF pc = "loop" THEN db ELSE @])
    /\ pc' = "return"
    /\ UNCHANGED << fs, mtime, db, prev, edits, runs, peer, proj, sub >>

(***************************************************************************)
(* index_all / sync returns.                                               *)
(***************************************************************************)
\* What a completed run leaves for the next one to be compared with: how it
\* ended, how many rows it read in its resolver pass, the row counts it left.
ResultOf(r, d) ==
    [mode |-> r.mode, force |-> r.force,
     ok |-> ~r.aborted,
     errors |-> r.errors, warnings |-> r.warnings, resolver |-> r.resolver,
     faulted |-> r.faulted,
     unresolved_before |-> Len(r.rsnap.unresolved_refs),
     counts |-> RowCounts(d), changed |-> FALSE]

\* index_all, lines 148-151: success is "no error of Error severity".
IndexAllSuccess(r) == r.errors = 0

Return ==
    /\ pc = "return"
    /\ prev' = ResultOf(run, db)
    /\ run' = IdleRun
    /\ pc' = "idle"
    /\ runs' = runs + 1
    /\ UNCHANGED << fs, mtime, db, edits, faults, peer, proj, sub >>

Next ==
    \/ \E p \in Paths, c \in Texts \cup {NoFile} : EditFile(p, c)
    \/ \E p \in Paths : TouchFile(p)
    \/ \E force \in BOOLEAN : StartIndexAll(force)
    \/ StartSync
    \/ \E p \in Paths : SyncDeleteFile(p)
    \/ \E p \in Paths : IndexFileBegin(p)
    \/ InsertNodesStep
    \/ InsertEdgesStep
    \/ InsertRefsStep
    \/ UpsertFileStep
    \/ StoreFault
    \/ \E p \in Paths : IndexFileFault(p)
    \/ SyncDeleteFault
    \/ ResolveStep
    \/ ResolveDeleteStep
    \/ ResolveFault
    \/ Return

Spec == Init /\ [][Next]_vars

(***************************************************************************)
(* The indexer on projects whose files exercise the extractor: nested      *)
(* scopes, imports and exports, a language without a grammar.  The tree    *)
(* does not change between the runs.                                       *)
(***************************************************************************)
InitTrees ==
    /\ fs \in [Paths -> UNION {TreeTextsOf(p) : p \in Paths} \cup {NoFile}]
    /\ \A p \in Paths : fs[p] \in TreeTextsOf(p) \cup {NoFile}
    /\ mtime = [p \in Paths |-> 0]
    /\ db = EmptyDb
    /\ pc = "idle"
    /\ run = IdleRun
    /\ prev = NoResult
    /\ edits = 0
    /\ faults = 0
    /\ runs = 0
    /\ peer = IdlePeer
    /\ proj = InitializedProject
    /\ sub = IdleSub

NextTrees ==
    \/ \E force \in BOOLEAN : StartIndexAll(force)
    \/ StartSync
    \/ \E p \in Paths : IndexFileBegin(p)
    \/ InsertNodesStep
    \/ InsertEdgesStep
    \/ InsertRefsStep
    \/ UpsertFileStep
    \/ StoreFault
    \/ ResolveStep
    \/ ResolveDeleteStep
    \/ Return

SpecTrees == InitTrees /\ [][NextTrees]_vars

(***************************************************************************)
(* Two indexing processes on one store: next to the run above, a second    *)
(* process (another `coraline sync` or `coraline index` started by the     *)
(* post-commit hook or by hand) runs index_all with force = false on its   *)
(* own connection.  Nothing in open_database, index_all or sync waits for  *)
(* the other process: SQLite serialises the commits, and every commit of   *)
(* either process is a step.  The rows of unresolved_refs are known by     *)
(* their position here, so the second process takes its resolver pass in   *)
(* one step, and not between the two commits of the first one's pass.      *)
(***************************************************************************)
PeerStart ==
    /\ peer.pc = "idle"
    /\ peer' = [IdlePeer EXCEPT !.pc = "loop", !.todo = scan_directory]
    /\ UNCHANGED << fs, mtime, db, pc, run, prev, edits, faults, runs, proj, sub >>

PeerNodesBatch == << FileNode(peer.cur) >> \o peer.batch.nodes
PeerEdgesBatch == peer.batch.edges
PeerRefsBatch == peer.batch.refs

PeerPcAfter(stage) ==
    IF stage = "nodes" /\ PeerEdgesBatch # << >> THEN "edges"
    ELSE IF stage \in {"nodes", "edges"} /\ PeerRefsBatch # << >> THEN "refs"
    ELSE "record"

\* index_file up to delete_file, for path p.
PeerIndexFileBegin(p) ==
    /\ peer.pc = "loop"
    /\ p \in peer.todo
    /\ LET out == index_file_check(db, p, fs[p])
       IN  /\ db' = IF out = "go" /\ get_file_record(db, p) # NoRow
                    THEN delete_file(db, p)
                    ELSE db
           /\ peer' = [peer EXCEPT !.todo = @ \ {p}, !.cur = p, !.text = fs[p],
                                   !.batch = IF out = "go"
                                             THEN ExtractedFrom(p, fs[p])
                                             ELSE NoBatch,
                                   !.errors = IF out = "err" THEN @ + 1 ELSE @,
                                   !.pc = IF out = "go" THEN "nodes" ELSE "loop"]
    /\ UNCHANGED << fs, mtime, pc, run, prev, edits, faults, runs, proj, sub >>

PeerInsertNodesStep ==
    /\ peer.pc = "nodes"
    /\ IF NodesInsertable(db, PeerNodesBatch)
       THEN /\ db' = insert_nodes(db, PeerNodesBatch)
            /\ peer' = [peer EXCEPT !.pc = PeerPcAfter("nodes")]
       ELSE /\ db' = insert_nodes(db, PeerNodesBatch)
            /\ peer' = [peer EXCEPT !.pc = "loop", !.errors = @ + 1]
    /\ UNCHANGED << fs, mtime, pc, run, prev, edits, faults, runs, proj, sub >>

PeerInsertEdgesStep ==
    /\ peer.pc = "edges"
    /\ IF EdgesInsertable(db, PeerEdgesBatch)
       THEN /\ db' = insert_edges(db, PeerEdgesBatch)
            /\ peer' = [peer EXCEPT !.pc = PeerPcAfter("edges")]
       ELSE /\ db' = insert_edges(db, PeerEdgesBatch)
            /\ peer' = [peer EXCEPT !.pc = "loop", !.errors = @ + 1]
    /\ UNCHANGED << fs, mtime, pc, run, prev, edits, faults, runs, proj, sub >>

PeerInsertRefsStep ==
    /\ peer.pc = "refs"
    /\ db' = insert_unresolved_refs(db, PeerRefsBatch)
    /\ peer' = [peer EXCEPT !.pc = "record"]
    /\ UNCHANGED << fs, mtime, pc, run, prev, edits, faults, runs, proj, sub >>

PeerUpsertFileStep ==
    /\ peer.pc = "record"
    /\ db' = upsert_file(db, FileRecordOf(peer.cur, peer.text, Len(PeerNodesBatch)))
    /\ peer' = [peer EXCEPT !.pc = "loop"]
    /\ UNCHANGED << fs, mtime, pc, run, prev, edits, faults, runs, proj, sub >>

\* resolve_unresolved of the second process, then its index_all returns.
PeerResolve ==
    /\ peer.pc = "loop"
    /\ peer.todo = {}
    /\ pc # "resolve_delete"
    /\ LET edges == ResolvedEdges(db, ResolveLimit)
       IN  db' = IF edges # << >> /\ EdgesInsertable(db, edges)
                 THEN delete_unresolved_refs(insert_edges(db, edges),
                                             ResolvedIds(db, ResolveLimit))
                 ELSE db
    /\ peer' = [peer EXCEPT !.pc = "done"]
    /\ UNCHANGED << fs, mtime, pc, run, prev, edits, faults, runs, proj, sub >>

InitTwoRuns == Init

\* The first process runs once, as index_all (force = false) or as sync.
NextTwoRuns ==
    \/ runs = 0 /\ StartIndexAll(FALSE)
    \/ runs = 0 /\ StartSync
    \/ \E p \in Paths : IndexFileBegin(p)
    \/ InsertNodesStep
    \/ InsertEdgesStep
    \/ InsertRefsStep
    \/ UpsertFileStep
    \/ ResolveStep
    \/ ResolveDeleteStep
    \/ Return
    \/ PeerStart
    \/ \E p \in Paths : PeerIndexFileBegin(p)
    \/ PeerInsertNodesStep
    \/ PeerInsertEdgesStep
    \/ PeerInsertRefsStep
    \/ PeerUpsertFileStep
    \/ PeerResolve

SpecTwoRuns == InitTwoRuns /\ [][NextTwoRuns]_vars

(***************************************************************************)
(* index_all, then index_all with force on the store that it has filled:   *)
(* clear_database statement by statement.  execute_batch stops at the      *)
(* first statement that fails and returns its error; what the statements   *)
(* before it deleted is committed.                                         *)
(***************************************************************************)
\* The position of execute_batch before the k-th statement.
ClearPc(k) ==
    << "clear_unresolved_refs", "clear_vectors", "clear_edges", "clear_nodes",
       "clear_files" >>[k]

InitClear == Init

\* index_all(force = true) reaches clear_database.
ClearBegin ==
    /\ pc = "idle"
    /\ run' = [IdleRun EXCEPT !.mode = "index_all", !.force = TRUE,
                              !.scan = scan_directory, !.snap = db]
    /\ pc' = ClearPc(1)
    /\ UNCHANGED << fs, mtime, db, prev, edits, faults, runs, peer, proj, sub >>

\* The k-th statement runs and commits.
ClearStatement(k) ==
    /\ pc = ClearPc(k)
    /\ db' = clear_statement(db, k)
    /\ pc' = IF k < Len(ClearStatements) THEN ClearPc(k + 1) ELSE "cleared"
    /\ UNCHANGED << fs, mtime, run, prev, edits, faults, runs, peer, proj, sub >>

\* The k-th statement fails (the store is locked by another process, the
\* write fails): execute_batch returns the error, index_all returns it.
ClearFault(k) ==
    /\ pc = ClearPc(k)
    /\ faults < MaxFaults
    /\ faults' = faults + 1
    /\ run' = [run EXCEPT !.aborted = TRUE, !.faulted = TRUE]
    /\ pc' = "clear_err"
    /\ UNCHANGED << fs, mtime, db, prev, edits, runs, peer, proj, sub >>

\* One index_all (force = false) fills the store; then index_all with force.
NextClear ==
    \/ runs = 0 /\ StartIndexAll(FALSE)
    \/ \E p \in Paths : IndexFileBegin(p)
    \/ InsertNodesStep
    \/ InsertEdgesStep
    \/ InsertRefsStep
    \/ UpsertFileStep
    \/ ResolveStep
    \/ ResolveDeleteStep
    \/ Return
    \/ ClearBegin
    \/ \E k \in DOMAIN ClearStatements : ClearStatement(k)
    \/ \E k \in DOMAIN ClearStatements : ClearFault(k)

SpecClear == InitClear /\ [][NextClear]_vars

(***************************************************************************)
(* The commands on the project root, from a project that has git hooks of *)
(* its own or none, and any of the three ways to run the hook's command.   *)
(***************************************************************************)
InitProject ==
    /\ fs = [p \in Paths |-> NoFile]
    /\ mtime = [p \in Paths |-> 0]
    /\ db = EmptyDb
    /\ pc = "idle"
    /\ run = IdleRun
    /\ prev = NoResult
    /\ edits = 0
    /\ faults = 0
    /\ runs = 0
    /\ peer = IdlePeer
    /\ sub = IdleSub
    /\ \E git, codegraph_dir \in BOOLEAN, runner \in {"coraline", "cargo", "none"},
          hook \in UserHooks \cup {NoFile} :
          proj = [NewProject EXCEPT !.git = git, !.codegraph_dir = codegraph_dir,
                                    !.runner = runner, !.hook = hook,
                                    !.hook_exec = hook # NoFile,
                                    !.original = hook]

\* A file operation of the command fails (the actions take only failures of
\* operations that the command reaches).
FileFault(fail_at) ==
    IF fail_at = None THEN faults' = faults
    ELSE faults < MaxFaults /\ faults' = faults + 1

\* What a failed fs::write of post-commit can leave: the file as it was, or
\* an empty file.
WrittenBy(fail_at, written) ==
    IF fail_at = "write" THEN written \in {proj.hook, "empty"} ELSE written = "script"

RunInit(fail_at, no_hooks, written) ==
    /\ FileFault(fail_at)
    /\ fail_at # None => ~is_initialized
    /\ fail_at \in {"mkdir", "copy", "write", "chmod"} => ~no_hooks /\ proj.git
    /\ fail_at = "copy" => proj.hook # NoFile /\ ~HasMarker(proj.hook)
    /\ WrittenBy(fail_at, written)
    /\ proj' = run_init(proj, fail_at, no_hooks, written)
    /\ UNCHANGED << fs, mtime, db, pc, run, prev, edits, runs, peer, sub >>

\* A memory tool is used on the project: MemoryManager::new creates
\* .coraline/memories.
MemoryManagerNew ==
    /\ proj' = [proj EXCEPT !.data_dir = TRUE, !.last = [op |-> "memory"]]
    /\ UNCHANGED << fs, mtime, db, pc, run, prev, edits, faults, runs, peer, sub >>

\* `coraline serve --mcp`, with or without --path.
McpServerNew(with_root) ==
    /\ proj.server = "none"
    /\ proj' = McpServer_new(proj, with_root)
    /\ UNCHANGED << fs, mtime, db, pc, run, prev, edits, faults, runs, peer, sub >>

McpInitialize ==
    /\ proj.server # "none"
    /\ proj' = handle_initialize(proj)
    /\ UNCHANGED << fs, mtime, db, pc, run, prev, edits, faults, runs, peer, sub >>

McpToolsCall ==
    /\ proj.server # "none"
    /\ proj' = handle_tools_call(proj)
    /\ UNCHANGED << fs, mtime, db, pc, run, prev, edits, faults, runs, peer, sub >>

\* The server process ends.
McpServerExit ==
    /\ proj.server # "none"
    /\ proj' = [proj EXCEPT !.server = "none", !.last = [op |-> "exit"]]
    /\ UNCHANGED << fs, mtime, db, pc, run, prev, edits, faults, runs, peer, sub >>

\* `coraline index`, `coraline sync`.
RunIndex(command) ==
    /\ proj' = run_index(proj, command)
    /\ UNCHANGED << fs, mtime, db, pc, run, prev, edits, faults, runs, peer, sub >>

OpenDatabase ==
    /\ proj' = open_database
    /\ UNCHANGED << fs, mtime, db, pc, run, prev, edits, faults, runs, peer, sub >>

InstallHook(fail_at, written) ==
    /\ FileFault(fail_at)
    /\ fail_at # None => proj.git
    /\ fail_at = "copy" => proj.hook # NoFile /\ ~HasMarker(proj.hook)
    /\ WrittenBy(fail_at, written)
    /\ proj' = install_hook(proj, fail_at, written)
    /\ UNCHANGED << fs, mtime, db, pc, run, prev, edits, runs, peer, sub >>

RemoveHook(fail_at) ==
    /\ FileFault(fail_at)
    /\ fail_at # None => HasMarker(proj.hook)
    /\ fail_at = "rename" => proj.backup # NoFile
    /\ proj' = remove_hook(proj, fail_at)
    /\ UNCHANGED << fs, mtime, db, pc, run, prev, edits, runs, peer, sub >>

Commit ==
    /\ proj.git
    /\ proj' = commit
    /\ UNCHANGED << fs, mtime, db, pc, run, prev, edits, faults, runs, peer, sub >>

\* The contents a post-commit file can have.
HookContents == UserHooks \cup {NoFile, "script", "empty"}

NextProject ==
    \/ \E fail_at \in {None, "dir", "config", "open", "schema",
                         "mkdir", "copy", "write", "chmod"},
          no_hooks \in BOOLEAN, written \in HookContents :
          RunInit(fail_at, no_hooks, written)
    \/ MemoryManagerNew
    \/ OpenDatabase
    \/ \E fail_at \in {None, "mkdir", "copy", "write", "chmod"},
          written \in HookContents :
          InstallHook(fail_at, written)
    \/ \E fail_at \in {None, "remove", "rename"} : RemoveHook(fail_at)
    \/ Commit

SpecProject == InitProject /\ [][NextProject]_vars

\* The commands that ask is_initialized, and the MCP server, on a project in
\* which no file operation fails.
NextServer ==
    \/ \E no_hooks \in BOOLEAN : RunInit(None, no_hooks, "script")
    \/ \E with_root \in BOOLEAN : McpServerNew(with_root)
    \/ McpInitialize
    \/ McpToolsCall
    \/ McpServerExit
    \/ \E command \in {"index", "sync"} : RunIndex(command)

SpecServer == InitProject /\ [][NextServer]_vars

(***************************************************************************)
(* Memories: memory.rs and tools/memory_tools.rs.  A text is a sequence of *)
(* words; "not found" stands for that phrase, "(" for a text that is not   *)
(* a regular expression.                                                   *)
(***************************************************************************)
Words == {"x", "y", "(", "not found"}
MaxWords == 2
MemoryTexts == UNION {[1..n -> Words] : n \in 0..MaxWords}

\* str::contains
contains(content, phrase) == \E i \in DOMAIN content : content[i] = phrase

\* str::replace and Regex::replace_all with a pattern that is one word.
replace(content, pattern, replacement) ==
    [i \in DOMAIN content |-> IF content[i] = pattern THEN replacement ELSE content[i]]

\* read_memory, lines 57-67: the text of the file, or a message when the
\* file does not exist.
read_memory(pr, name) ==
    IF pr.memories[name] = << >>
    THEN << "Memory", name, "not found", "Consider creating it" >>
    ELSE pr.memories[name][1]

\* write_memory, lines 50-54.
write_memory(pr, name, content) == [pr EXCEPT !.memories[name] = << content >>]

\* Regex::new(pattern) is Ok.
IsRegex(pattern) == pattern # "("

\* EditMemoryTool::execute, lines 279-282: the memory counts as not found.
is_not_found(pr, name, content) == contains(content, "not found")

\* EditMemoryTool::execute, lines 258-306.
edit_memory(pr, name, pattern, replacement, mode) ==
    LET content == read_memory(pr, name)
        call == [op |-> "edit_memory", name |-> name, pattern |-> pattern,
                 replacement |-> replacement, mode |-> mode,
                 before |-> pr.memories[name]]
        err(code) == [pr EXCEPT !.last = call @@ [result |-> code]]
    IN  IF is_not_found(pr, name, content) THEN err("not_found")
        ELSE IF mode = "regex" /\ ~IsRegex(pattern) THEN err("invalid_params")
        ELSE IF mode \notin {"regex", "literal"} THEN err("invalid_params")
        ELSE [write_memory(pr, name, replace(content, pattern, replacement))
                 EXCEPT !.last = call @@ [result |-> "ok"]]

\* The project of the memory tools: initialized, MemoryManager::new done.
InitMemory ==
    /\ fs = [p \in Paths |-> NoFile]
    /\ mtime = [p \in Paths |-> 0]
    /\ db = EmptyDb
    /\ pc = "idle"
    /\ run = IdleRun
    /\ prev = NoResult
    /\ edits = 0
    /\ faults = 0
    /\ runs = 0
    /\ peer = IdlePeer
    /\ sub = IdleSub
    /\ proj = InitializedProject

\* WriteMemoryTool::execute.
WriteMemory(name, content) ==
    /\ proj' = [write_memory(proj, name, content)
                   EXCEPT !.last = [op |-> "write_memory", name |-> name]]
    /\ UNCHANGED << fs, mtime, db, pc, run, prev, edits, faults, runs, peer, sub >>

\* DeleteMemoryTool::execute on a memory that exists.
DeleteMemory(name) ==
    /\ proj.memories[name] # << >>
    /\ proj' = [proj EXCEPT !.memories[name] = << >>,
                            !.last = [op |-> "delete_memory", name |-> name]]
    /\ UNCHANGED << fs, mtime, db, pc, run, prev, edits, faults, runs, peer, sub >>

EditMemory(name, pattern, replacement, mode) ==
    /\ proj' = edit_memory(proj, name, pattern, replacement, mode)
    /\ UNCHANGED << fs, mtime, db, pc, run, prev, edits, faults, runs, peer, sub >>

NextMemory ==
    \/ \E name \in MemoryNames, content \in MemoryTexts : WriteMemory(name, content)
    \/ \E name \in MemoryNames : DeleteMemory(name)
    \/ \E name \in MemoryNames, pattern, replacement \in Words,
          mode \in {"literal", "regex", "glob"} :
          EditMemory(name, pattern, replacement, mode)

SpecMemory == InitMemory /\ [][NextMemory]_vars

(***************************************************************************)
(* Graph queries: build_subgraph is called with some roots and options on  *)
(* a store; one step per iteration of its loop.                            *)
(***************************************************************************)
StoredNodes ==
    {[id |-> "n1", kind |-> "function"], [id |-> "n2", kind |-> "function"],
     [id |-> "n3", kind |-> "class"]}

Calls(a, b) == [source |-> a, target |-> b, kind |-> "calls"]
Contains(a, b) == [source |-> a, target |-> b, kind |-> "contains"]

\* The edges tables tried: none; two functions calling each other; a
\* function calling itself and a chain; a class containing functions that
\* call round in a ring.
EdgeTables ==
    { << >>,
      << Calls("n1", "n2"), Calls("n2", "n1") >>,
      << Calls("n1", "n1"), Calls("n1", "n2"), Calls("n2", "n3") >>,
      << Contains("n3", "n2"), Calls("n1", "n2"), Calls("n2", "n3"),
         Calls("n3", "n1") >> }

\* The roots tried; "nx" is an id that the store does not have.
RootLists ==
    { << >>, << "n1" >>, << "n3" >>, << "n1", "n1" >>, << "n1", "n2" >>,
      << "n2", "n1" >>, << "nx", "n1" >>, << "n1", "n2", "n3" >>,
      << "n3", "n2", "n1" >> }

\* The options tried.
OptionsTried ==
    [max_depth : {<< >>, << 0 >>, << 2 >>},
     edge_kinds : {<< >>, << << "calls" >> >>, << << "contains", "calls" >> >>},
     node_kinds : {<< >>, << << "function" >> >>},
     direction : {<< >>, << "outgoing" >>, << "incoming" >>},
     limit : {<< >>, << 0 >>, << 1 >>, << 3 >>},
     include_start : {<< >>, << FALSE >>}]

InitGraph ==
    /\ fs = [p \in Paths |-> NoFile]
    /\ mtime = [p \in Paths |-> 0]
    /\ db = EmptyDb
    /\ pc = "idle"
    /\ run = IdleRun
    /\ prev = NoResult
    /\ edits = 0
    /\ faults = 0
    /\ runs = 0
    /\ peer = IdlePeer
    /\ proj = InitializedProject
    /\ \E edges \in EdgeTables : sub = NewSub([nodes |-> StoredNodes, edges |-> edges])

BuildSubgraphBegin(roots, options) ==
    /\ sub.pc = "idle"
    /\ sub' = build_subgraph_begin(sub, roots, options)
    /\ UNCHANGED << fs, mtime, db, pc, run, prev, edits, faults, runs, peer, proj >>

BuildSubgraphIterate ==
    /\ sub.pc = "loop"
    /\ sub.queue # << >>
    /\ sub' = build_subgraph_iterate(sub)
    /\ UNCHANGED << fs, mtime, db, pc, run, prev, edits, faults, runs, peer, proj >>

\* The queue is empty: the loop ends and the subgraph is returned.
BuildSubgraphReturn ==
    /\ sub.pc = "loop"
    /\ sub.queue = << >>
    /\ sub' = [sub EXCEPT !.pc = "done"]
    /\ UNCHANGED << fs, mtime, db, pc, run, prev, edits, faults, runs, peer, proj >>

NextGraph ==
    \/ \E roots \in RootLists, options \in OptionsTried :
          BuildSubgraphBegin(roots, options)
    \/ BuildSubgraphIterate
    \/ BuildSubgraphReturn

SpecGraph == InitGraph /\ [][NextGraph]_vars

\* A call that was started goes on running: its thread is not starved.
SpecGraphFair ==
    SpecGraph /\ WF_vars(BuildSubgraphIterate) /\ WF_vars(BuildSubgraphReturn)

(***************************************************************************)
(* A resolver pass on stores that hold the function f of src/a.rs, an      *)
(* unresolved call of g from it, and any choice of nodes named g: functions *)
(* in the same file, the same directory and elsewhere, a class, an Import  *)
(* node of the caller's file and Export nodes; before that reference there  *)
(* may be calls of a name q that nothing defines, after it a reference     *)
(* whose caller is gone.  Passes follow one another.                       *)
(***************************************************************************)
CallerF == SymbolNode("src/a.rs", "function", "f", << "src/a.rs", "f" >>, 0, << >>)

FunctionG(path) == SymbolNode(path, "function", "g", << path, "g" >>, 5, << >>)

ClassG == SymbolNode("src/a.rs", "class", "g", << "src/a.rs", "g" >>, 9, << >>)

ImportG(signature) ==
    SymbolNode("src/a.rs", "import", "g", << "src/a.rs", "g" >>, 1, signature)

ExportOf(path, name) ==
    SymbolNode(path, "export", name, << path, name >>, 2, << "crate::b" >>)

RefTo(from_node_id, name, line) ==
    [from_node_id |-> from_node_id, reference_name |-> name,
     reference_kind |-> "calls", line |-> line, col |-> 4, candidates |-> << >>]

\* The id of a node that is no longer stored.
GoneId == node_id_for_symbol("src/z.rs", "function", << "src/z.rs", "z" >>, 1)

\* A store left by earlier runs: the caller f with one reference to g, the
\* nodes named g, crowd references ahead of it that no node answers, and
\* (stale) one reference whose source node is gone.
StoreWith(functions, class, import, exports, crowd, stale) ==
    [EmptyDb EXCEPT
        !.nodes = {CallerF} \cup {FunctionG(path) : path \in functions}
                  \cup class \cup exports
                  \cup {ImportG(import[i]) : i \in DOMAIN import},
        !.unresolved_refs =
            [k \in 1..crowd |-> RefTo(CallerF.id, "q", k + 1)]
            \o << RefTo(CallerF.id, "g", 1) >>
            \o (IF stale THEN << RefTo(GoneId, "f", 1) >> ELSE << >>)]

\* index_all has parsed its (empty) tree and stands before its resolver pass.
BeforeResolver(d) ==
    /\ fs = [p \in Paths |-> NoFile]
    /\ mtime = [p \in Paths |-> 0]
    /\ pc = "loop"
    /\ prev = NoResult
    /\ edits = 0
    /\ faults = 0
    /\ runs = 0
    /\ peer = IdlePeer
    /\ proj = InitializedProject
    /\ sub = IdleSub
    /\ db = d
    /\ run = [IdleRun EXCEPT !.mode = "index_all", !.snap = d]

InitResolve ==
    \E functions \in SUBSET {"src/a.rs", "src/c.rs", "lib/b.rs", "lib/d.rs"},
       class \in SUBSET {ClassG},
       import \in {<< >>, << << "crate::b" >> >>,
                   << << "crate::b", "|export=", "h" >> >>},
       exports \in SUBSET {ExportOf("lib/b.rs", "g"), ExportOf("lib/d.rs", "g"),
                           ExportOf("lib/b.rs", "h")},
       crowd \in {0, ResolveLimit}, stale \in BOOLEAN :
       BeforeResolver(StoreWith(functions, class, import, exports, crowd, stale))

\* The next index_all over the (empty) tree comes to its resolver pass; there
\* is no bound on how many passes follow one another.
ResolveAgain ==
    /\ pc = "idle"
    /\ run' = [IdleRun EXCEPT !.mode = "index_all", !.snap = db]
    /\ pc' = "loop"
    /\ UNCHANGED << fs, mtime, db, prev, edits, faults, runs, peer, proj, sub >>

\* index_all returns; the count of completed passes stops at MaxRuns.
ReturnFromPass ==
    /\ pc = "return"
    /\ prev' = ResultOf(run, db)
    /\ run' = IdleRun
    /\ pc' = "idle"
    /\ runs' = IF runs < MaxRuns THEN runs + 1 ELSE runs
    /\ UNCHANGED << fs, mtime, db, edits, faults, peer, proj, sub >>

NextResolve ==
    \/ ResolveAgain
    \/ ResolveStep
    \/ ResolveDeleteStep
    \/ ReturnFromPass

SpecResolve == InitResolve /\ [][NextResolve]_vars

\* The stores of the passes that are followed for ever: one caller, the
\* candidates of two directories, a class of the same name.
InitPasses ==
    \E functions \in SUBSET {"src/c.rs", "lib/d.rs"},
       class \in SUBSET {ClassG},
       crowd \in {0, ResolveLimit}, stale \in BOOLEAN :
       BeforeResolver(StoreWith(functions, class, << >>, {}, crowd, stale))

\* Every pass that has begun runs to its end, and passes keep coming.
SpecResolveFair == InitPasses /\ [][NextResolve]_vars /\ WF_vars(NextResolve)

(***************************************************************************)
(* Properties.                                                             *)
(***************************************************************************)
\* index_file, lines 248-325, when every write succeeds: the store after the
\* writes for path p with text c, from store d.
index_file_writes(d, p, c) ==
    LET d1 == IF get_file_record(d, p) # NoRow THEN delete_file(d, p) ELSE d
        nb == << FileNode(p) >> \o ExtractedFrom(p, c).nodes
        d2 == insert_nodes(d1, nb)
        d3 == insert_edges(d2, ExtractedFrom(p, c).edges)
        d4 == insert_unresolved_refs(d3, ExtractedFrom(p, c).refs)
    IN  upsert_file(d4, FileRecordOf(p, c, Len(nb)))

InIndexFile == pc \in {"nodes", "edges", "refs", "record"}

\* C1: within a run, the writes for one file take effect as one transaction:
\* whenever a reader looks at the store while the run is at file F (or between F
\* and the next file), it sees none of F's writes or all of them.
C1_FileWritesAreOneTransaction ==
    (run.cur # None /\ (InIndexFile \/ pc = "loop"))
        => db \in {run.snap, index_file_writes(run.snap, run.cur, run.text)}

\* C2: when a store write fails while index_file writes a changed file F (one
\* that had a File record), the store holds for F what it held before the
\* attempt.  Stated for index_all, whose loop goes on after the failure.
C2_FailedWriteIsAllOrNothing ==
    ( /\ run.mode = "index_all"
      /\ pc = "loop"
      /\ run.cur \in run.failed
      /\ run.fail_at \in {"begin", "nodes", "edges", "refs", "record"}
      /\ get_file_record(run.snap, run.cur) # NoRow )
        => db = run.snap

\* The run at hand is a second index_all (force = false) over the tree the
\* previous index_all saw, and is about to return.
SecondIndexAll ==
    /\ pc = "return"
    /\ run.mode = "index_all"
    /\ ~run.force
    /\ prev.mode = "index_all"
    /\ ~prev.changed

IsNoOp == run.files_indexed = 0 /\ RowCounts(db) = prev.counts

SecondSync ==
    /\ pc = "return"
    /\ run.mode = "sync"
    /\ prev.mode = "sync"
    /\ ~prev.changed

ZeroCounters ==
    run.files_added = 0 /\ run.files_modified = 0 /\ run.files_removed = 0

DeleteFileContract(d, p) ==
    LET e == delete_file(d, p)
        gone == {n.id : n \in {m \in d.nodes : m.file_path = p}}
    IN  /\ get_file_record(e, p) = NoRow
        /\ \A n \in e.nodes : n.file_path # p
        /\ \A x \in BagToSet(e.edges) : x.source \notin gone /\ x.target \notin gone
        /\ e.files = {f \in d.files : f.path # p}
        /\ e.nodes = {n \in d.nodes : n.file_path # p}
        /\ \A x \in BagToSet(d.edges) :
              (x.source \notin gone /\ x.target \notin gone)
                  => (x \in BagToSet(e.edges) /\ e.edges[x] = d.edges[x])

\* C5: delete_file(path) removes the File record of path, every node whose
\* file_path is path and every edge with such a node as source or target, in
\* one step; no edge names a deleted node afterwards; the File records, nodes
\* and edges of the other files are unchanged.  Checked for every path on every
\* store the program reaches, and on the store sync's removal loop leaves.
C5_DeleteFileRemovesFileNodesEdges ==
    /\ \A p \in Paths : DeleteFileContract(db, p)
    /\ (pc \in {"sync_delete", "loop"} /\ run.gone # None)
          => (db = delete_file(run.snap, run.gone) /\ DeleteFileContract(run.snap, run.gone))

\* sync has just deleted a path whose nodes were joined to another file's
\* nodes by a Calls edge.
C5_Witness ==
    /\ pc \in {"sync_delete", "loop"}
    /\ run.gone # None
    /\ get_file_record(run.snap, run.gone) # NoRow
    /\ \E x \in BagToSet(run.snap.edges) :
          /\ x.kind = "calls"
          /\ get_node_by_id(run.snap, x.source).file_path # run.gone
          /\ get_node_by_id(run.snap, x.target).file_path = run.gone
    /\ db.nodes # {}
    /\ db.edges # EmptyBag

\* The tracked paths the run has taken up so far (force = true tracks none).
TrackedBegun == {p \in run.begun : TrackedRecord(run.tracked, p) # NoRow}

HashDiffers(p) == TrackedRecord(run.tracked, p).content_hash # hash_sha256(fs[p])

C7_AbsentPathsAreDeleted ==
    (pc = "return" /\ ~run.aborted) =>
        \A p \in Paths \ run.scan :
            /\ get_file_record(db, p) = NoRow
            /\ \A n \in db.nodes : n.file_path # p

\* C8: in sync, an error on one file is recorded and the run continues: every
\* other scanned file is processed, the resolver runs, sync returns counters.
C8_SyncContinuesAfterFileError ==
    (pc = "return" /\ run.mode = "sync" /\ run.failed # {}) =>
        /\ ~run.aborted
        /\ run.begun = run.scan
        /\ run.resolver # None

\* The paths of the run on which extraction failed: index_file parsed the
\* text and the parser gave no tree.
ExtractFailed == {p \in run.parsed : ParseFails(fs[p])}

IndexAllSurvivesReadAndStoreFailures ==
    (pc = "return" /\ run.mode = "index_all") =>
        /\ ~run.aborted
        /\ run.begun = run.scan
        /\ run.resolver # None
        /\ run.errors = Cardinality(run.failed)
        /\ run.failed # {} => ~IndexAllSuccess(run)

CallsEdges(d) == {e \in BagToSet(d.edges) : e.kind = "calls"}

\* resolve_unresolved has been called in this run and has not returned yet
\* (between its two commits), or has returned.
ResolverPassed ==
    \/ pc = "resolve_delete"
    \/ pc = "return" /\ run.resolver # None

\* C10: after a resolver pass, whether it succeeded or returned an error, the
\* set of Calls edges is a superset of the set before the pass and there are
\* not more unresolved-reference rows than before.
C10_ResolverMonotone ==
    ResolverPassed =>
        /\ CallsEdges(run.rsnap) \subseteq CallsEdges(db)
        /\ Len(db.unresolved_refs) <= Len(run.rsnap.unresolved_refs)

\* The resolver returned an error after it had inserted the promoted edges,
\* on a store that held Calls edges before the pass.
C10_Witness ==
    /\ pc = "return"
    /\ run.resolver = "err"
    /\ CallsEdges(run.rsnap) # {}
    /\ CallsEdges(run.rsnap) # CallsEdges(db)
    /\ Len(db.unresolved_refs) = Len(run.rsnap.unresolved_refs)

(***************************************************************************)
(* The resolver's bookkeeping of unresolved_refs.                          *)
(***************************************************************************)
\* The rows a returned resolver pass promoted: insert_edges is one
\* transaction, so the pass stored the edge of every row it resolved or of none.
PromotedRows ==
    IF db.edges = run.rsnap.edges THEN {}
    ELSE ResolvedIds(run.rsnap, ResolveLimit)

RemovedExactlyThePromoted ==
    db.unresolved_refs = delete_unresolved_refs(run.rsnap, PromotedRows).unresolved_refs

\* C11: when a resolver pass has returned, the unresolved-reference rows it
\* removed are exactly the rows it promoted to a Calls edge: no row is gone
\* without its edge stored, no promoted row is still in the table, and the rows
\* it could not disambiguate are all still there.
C11_RemovedExactlyWhenPromoted ==
    (pc = "return" /\ run.resolver # None) => RemovedExactlyThePromoted

\* C11 for the passes in which no store operation failed.
ResolverRemovesPromotedWhenNoFault ==
    (pc = "return" /\ run.resolver # None /\ ~run.faulted) => RemovedExactlyThePromoted

(***************************************************************************)
(* The Contains edges of the stored nodes.                                 *)
(***************************************************************************)
\* The number of Contains edges of store d that end at node id.
IncomingContains(d, id) ==
    BagCardinality([e \in {x \in BagToSet(d.edges) :
                              x.kind = "contains" /\ x.target = id} |-> d.edges[e]])

\* C13: between runs, every node of the store that is not a File node has
\* exactly one incoming Contains edge and no File node has one.
C13_OneContainsEdgePerSymbol ==
    pc = "idle" =>
        \A n \in db.nodes :
            IncomingContains(db, n.id) = (IF n.kind = "file" THEN 0 ELSE 1)

\* C13 for the stores no failed write has touched.
OneContainsEdgePerSymbolWhenNoFault ==
    (pc = "idle" /\ faults = 0) =>
        \A n \in db.nodes :
            IncomingContains(db, n.id) = (IF n.kind = "file" THEN 0 ELSE 1)

(***************************************************************************)
(* Files larger than max_file_size.                                        *)
(***************************************************************************)
SymbolNodesOf(d, p) == {n \in d.nodes : n.file_path = p /\ n.kind # "file"}

TrackedPaths(r) == {f.path : f \in r.tracked}

\* index_file has stored path p with its current text in this run.
IndexedNow(p) ==
    /\ p \in run.parsed
    /\ get_file_record(db, p) # NoRow
    /\ get_file_record(db, p).content_hash = hash_sha256(fs[p])

RemovedPaths == TrackedPaths(run) \ run.scan

ModifiedPaths ==
    {p \in run.scan \cap TrackedPaths(run) :
        /\ TrackedRecord(run.tracked, p).content_hash # hash_sha256(fs[p])
        /\ IndexedNow(p)}

AddedPaths == {p \in run.scan \ TrackedPaths(run) : IndexedNow(p)}

UnchangedPaths ==
    {p \in run.scan \cap TrackedPaths(run) :
        TrackedRecord(run.tracked, p).content_hash = hash_sha256(fs[p])}

\* C19: when sync returns Ok, files_removed is the number of tracked paths
\* absent from the scan, files_modified the number of tracked scanned paths
\* whose content hash changed and that were re-indexed, files_added the number of
\* scanned paths without a File record that were indexed; the three sets are
\* disjoint and an unchanged tracked path is in none and was not parsed.
C19_SyncCountersClassifyPaths ==
    (pc = "return" /\ run.mode = "sync" /\ ~run.aborted) =>
        /\ run.files_removed = Cardinality(RemovedPaths)
        /\ run.files_modified = Cardinality(ModifiedPaths)
        /\ run.files_added = Cardinality(AddedPaths)
        /\ UnchangedPaths \cap run.parsed = {}
        /\ run.parsed = ModifiedPaths \cup AddedPaths

\* A sync that removed one path and re-indexed a changed one is about to return.
C19_Witness ==
    /\ pc = "return"
    /\ run.mode = "sync"
    /\ ~run.aborted
    /\ run.files_removed = 1
    /\ run.files_modified = 1
    /\ run.files_added = 0

(***************************************************************************)
(* The shape of what the extractor and the resolver store.                 *)
(***************************************************************************)
KindOf(d, id) == get_node_by_id(d, id).kind

C14_BatchIdsAreUnique ==
    pc = "nodes" =>
        \A i, j \in DOMAIN NodesBatch : NodesBatch[i].id = NodesBatch[j].id => i = j

\* C15: no two nodes extracted from one file have the same qualified name.
C15_QualifiedNamesAreUnique ==
    pc = "nodes" =>
        \A i, j \in DOMAIN NodesBatch :
            NodesBatch[i].qualified_name = NodesBatch[j].qualified_name => i = j

HasEdge(d, source, target, kind) ==
    \E e \in BagToSet(d.edges) : e.source = source /\ e.target = target /\ e.kind = kind

\* C16: between runs, every Import node of the store has a Contains edge and
\* an Imports edge from the File node of its file, and every Export node a
\* Contains edge and an Exports edge from that File node.
C16_ImportsAndExportsHangOffTheFileNode ==
    pc = "idle" =>
        \A n \in db.nodes :
            /\ n.kind = "import" =>
                  /\ HasEdge(db, FileNodeId(n.file_path), n.id, "contains")
                  /\ HasEdge(db, FileNodeId(n.file_path), n.id, "imports")
            /\ n.kind = "export" =>
                  /\ HasEdge(db, FileNodeId(n.file_path), n.id, "contains")
                  /\ HasEdge(db, FileNodeId(n.file_path), n.id, "exports")

\* The language of path p is unsupported: is_language_supported rejects it or
\* the parser adapter has no grammar for it.
Unsupported(p) ==
    \/ ~is_language_supported(detect_language(p))
    \/ language_to_parser(detect_language(p)) = None

\* C18: when a run has returned, a scanned file of an unsupported language
\* has no File record and no node in the store, and no error was recorded for
\* it.
C18_UnsupportedLanguageIsSkipped ==
    (pc = "return" /\ ~run.aborted) =>
        \A p \in run.scan :
            Unsupported(p) =>
                /\ get_file_record(db, p) = NoRow
                /\ {n \in db.nodes : n.file_path = p} = {}
                /\ p \notin run.failed

(***************************************************************************)
(* Two indexing processes on one store.                                    *)
(***************************************************************************)
\* The process at this position has committed a part of the writes for its
\* current file and not yet the last of them.
MidFile(position) == position \in {"edges", "refs", "record"}

\* C20: at most one indexing process writes to the store at a time: of two
\* runs started concurrently on one store, never are both between the first
\* and the last write for a file, so the per-file writes of one do not
\* interleave with those of the other.
C20_OneWriterAtATime == ~(MidFile(pc) /\ MidFile(peer.pc))

\* The tables after a batch insert that stored every row of its batch.
WithNodes(d, batch) == [d EXCEPT !.nodes = @ \cup Range(batch)]
WithEdges(d, batch) == [d EXCEPT !.edges = @ (+) SeqToBag(batch)]
WithRefs(d, batch) == [d EXCEPT !.unresolved_refs = @ \o batch]

\* A step of the first process (the second one, if any, stands still).
OwnStep == peer' = peer /\ (pc' # pc \/ run' # run)

\* C21: insert_nodes, insert_edges and insert_unresolved_refs are each
\* all-or-nothing: a step that runs one of them on a batch leaves either the
\* tables with every row of the batch added (no constraint fails) or the
\* tables as they were before the call (a duplicate node id, an edge whose
\* endpoint is not a stored node, a failed statement or commit).
C21_BatchInsertsAreAllOrNothing ==
    [][OwnStep =>
        /\ pc = "nodes" =>
              /\ db' \in {db, WithNodes(db, NodesBatch)}
              /\ ~NodesInsertable(db, NodesBatch) => db' = db
        /\ pc = "edges" =>
              /\ db' \in {db, WithEdges(db, EdgesBatch)}
              /\ ~EdgesInsertable(db, EdgesBatch) => db' = db
        /\ pc = "refs" =>
              db' \in {db, WithRefs(db, RefsBatch)}
        /\ (pc = "loop" /\ run.todo = {}) =>
              /\ db' \in {db, WithEdges(db, ResolvedEdges(db, ResolveLimit))}
              /\ ~EdgesInsertable(db, ResolvedEdges(db, ResolveLimit)) => db' = db]_vars

\* A batch of nodes whose third row repeats the id of its second one has been
\* handed to insert_nodes, which returned the error.
C21_Witness ==
    /\ pc = "loop"
    /\ run.fail_at = "nodes"
    /\ ~run.faulted
    /\ \E i, j \in DOMAIN NodesBatch :
           1 < i /\ i < j /\ NodesBatch[i].id = NodesBatch[j].id
    /\ db = run.snap

\* C22: clear_database deletes the rows of all tables in one transaction:
\* when it has returned, with success or with an error, every table is empty
\* or no table has changed.
C22_ClearIsOneTransaction ==
    pc \in {"cleared", "clear_err"} => db \in {EmptyDb, run.snap}

\* C23: open_database on a project root where initialize_database has never
\* run fails with an error: it returns no connection and creates no database.
C23_OpenFailsWhenNotInitialized ==
    (proj.last.op = "open_database" /\ proj.last.uninitialized) =>
        (~proj.last.ok /\ proj.database = "absent")

\* The ids one edge away from id: an edge leads from its source to its
\* target when the direction is not incoming, back when it is not outgoing,
\* and counts only when its kind passes the filter.
Neighbours(s, id) ==
    LET direction == unwrap_or(s.direction, "both")
        passes(e) == \/ s.edge_kinds = << >>
                     \/ e.kind \in Range(s.edge_kinds[1])
    IN  {e.target : e \in {x \in Range(s.conn.edges) :
                             passes(x) /\ direction # "incoming" /\ x.source = id}}
        \cup
        {e.source : e \in {x \in Range(s.conn.edges) :
                             passes(x) /\ direction # "outgoing" /\ x.target = id}}

\* The ids at most k edges away from one of ids.
RECURSIVE Within(_, _, _)
Within(s, ids, k) ==
    IF k = 0 THEN ids
    ELSE Within(s, ids \cup UNION {Neighbours(s, id) : id \in ids}, k - 1)

MaxDepthOf(s) == unwrap_or(s.max_depth, DefaultMaxDepth)
LimitOf(s) == unwrap_or(s.limit, DefaultLimit)

\* C24: build_subgraph never returns more edges than the limit option, 200
\* when there is none, whatever the graph, the roots, the direction, the
\* edge-kind filter and max_depth.
C24_EdgesWithinLimit ==
    sub.pc = "done" => Len(sub.edges) <= LimitOf(sub)

\* A walk in both directions to depth 2 over a table of several edges has
\* returned with limit 1 and one edge, leaving an edge of a visited node out.
C24_Witness ==
    /\ sub.pc = "done"
    /\ sub.limit = << 1 >> /\ Len(sub.edges) = 1
    /\ sub.max_depth = << 2 >> /\ sub.direction = << >> /\ sub.edge_kinds = << >>
    /\ \E e \in Range(sub.conn.edges) :
          e.source \in sub.visited /\ e \notin Range(sub.edges)

\* C25: every node of the node map is a root or can be reached from a root
\* by at most max_depth (1 by default) edges that respect the direction and
\* the edge-kind filter; an id taken from the queue at a depth beyond
\* max_depth is neither loaded nor expanded.
C25_NodesAreWithinMaxDepth ==
    /\ [](sub.nodes \subseteq Within(sub, Range(sub.roots), MaxDepthOf(sub)))
    /\ [][(/\ sub.pc = "loop" /\ sub.queue # << >>
           /\ Head(sub.queue)[2] > MaxDepthOf(sub)) =>
             (sub'.nodes = sub.nodes /\ sub'.expanded = sub.expanded)]_vars

\* A walk has returned a node that is no root, and the store has a node that
\* edges passing the filters reach from the roots, but not within max_depth.
C25_Witness ==
    /\ sub.pc = "done"
    /\ sub.nodes \ Range(sub.roots) # {}
    /\ Within(sub, Range(sub.roots), 3)
          \ Within(sub, Range(sub.roots), MaxDepthOf(sub)) # {}

\* C26: build_subgraph terminates on every finite graph, with cycles of
\* calls, self-loops and repeated roots, and fetches the edges of each node
\* id at most once.
C26_TerminatesAndExpandsOnce ==
    /\ (sub.pc = "loop") ~> (sub.pc = "done")
    /\ [](\A i, j \in DOMAIN sub.expanded :
             sub.expanded[i] = sub.expanded[j] => i = j)

\* A walk from a root given twice, over a store where that root calls
\* itself, has followed the self-loop, expanded further nodes and returned.
C26_Witness ==
    /\ sub.pc = "done"
    /\ sub.roots = << "n1", "n1" >>
    /\ \E i \in DOMAIN sub.edges : sub.edges[i].source = sub.edges[i].target
    /\ Len(sub.expanded) > 1

\* C27: with include_start true, every root id that the store has and that
\* passes the node-kind filter is in the returned node map, whatever the
\* number of roots, their order and the edge limit.
C27_RootsAreInTheNodeMap ==
    (sub.pc = "done" /\ unwrap_or(sub.include_start, TRUE)) =>
        \A i \in DOMAIN sub.roots :
            LET node == get_node_by_id(sub.conn, sub.roots[i])
            IN  (/\ node # NoRow
                 /\ \/ sub.node_kinds = << >>
                    \/ node.kind \in Range(sub.node_kinds[1]))
                => sub.roots[i] \in sub.nodes

\* C28: a post-commit hook that was there before Coraline's is never lost:
\* its content is the content of post-commit or of the backup, after a
\* successful remove_hook it is post-commit again, and remove_hook deletes no
\* post-commit file that lacks the marker.
C28_UserHookIsNeverLost ==
    /\ [](proj.original = "user" =>
            /\ proj.hook = "user" \/ proj.backup = "user"
            /\ (proj.last.op = "remove_hook" /\ proj.last.success) =>
                   proj.hook = "user")
    /\ [][(proj'.last.op = "remove_hook" /\ ~HasMarker(proj.hook)) =>
             proj'.hook = proj.hook]_vars

\* C29: with the hook installed in a project whose data directory init has
\* created, every commit makes the hook start `sync --quiet` (given a
\* command that can run it); the hook runs without starting it only when the
\* data directory is absent.
C29_CommitStartsSync ==
    (/\ proj.last.op = "commit"
     /\ proj.hook = "script" /\ proj.hook_exec
     /\ proj.runner # "none"
     /\ proj.data_dir /\ proj.database = "schema") =>
        proj.last.sync_started

\* The id pass 1 gave the callable of that kind and name that starts on that
\* row (None: pass 1 collected no such node).
CollectedId(batch, kind, name, row) ==
    LET hits == {i \in DOMAIN batch.nodes :
                    /\ batch.nodes[i].kind = kind
                    /\ batch.nodes[i].name = name
                    /\ batch.nodes[i].start_line = row + 1}
    IN  IF hits = {} THEN None ELSE batch.nodes[CHOOSE i \in hits : TRUE].id

\* The callee's short name as the source text has it.
CalleeOf(node) ==
    IF node.function # None THEN LastSegment(node.function) ELSE node.macro

\* The call expressions of a subtree that lie inside a collected callable,
\* each with its position, its callee and the innermost such callable.
RECURSIVE CallSites(_, _, _, _)
CallSites(node, language, batch, enclosing) ==
    LET kind == map_node_kind(node.kind, language).kind
        id == IF kind # None /\ node.name # None /\ is_callable_kind(kind)
              THEN CollectedId(batch, kind, node.name, node.row)
              ELSE None
        innermost == IF id # None THEN id ELSE enclosing
    IN  (IF is_call_expression(node.kind, language) /\ innermost # None
         THEN {[row |-> node.row, col |-> node.col, callee |-> CalleeOf(node),
                source |-> innermost]}
         ELSE {})
        \cup UNION {CallSites(node.children[i], language, batch, innermost) :
                       i \in DOMAIN node.children}

\* One call site has exactly one output, of the right kind and source.
OneOutput(batch, site) ==
    LET IsNamed(n) == is_callable_kind(n.kind) /\ n.name = site.callee
        named == SelectSeq(batch.nodes, IsNamed)
        ids == [i \in DOMAIN named |-> named[i].id]
        At(x) == x.line = site.row + 1 /\ x.col = site.col
        IsCall(e) == e.kind = "calls" /\ At(e)
        edges == SelectSeq(batch.edges, IsCall)
        refs == SelectSeq(batch.refs, At)
    IN  /\ Len(edges) + Len(refs) = 1
        /\ IF Len(ids) = 1
           THEN /\ Len(edges) = 1
                /\ edges[1].source = site.source
                /\ edges[1].target = ids[1]
           ELSE /\ Len(refs) = 1
                /\ refs[1].from_node_id = site.source
                /\ refs[1].reference_name = site.callee
                /\ refs[1].candidates = ids

RECURSIVE Subtrees(_)
Subtrees(node) ==
    {node} \cup UNION {Subtrees(node.children[i]) : i \in DOMAIN node.children}

\* The scope stacks a subtree is walked from in the check of C30.
StacksTried == {<< >>, << "outer" >>}

\* C30: in pass 2 every call expression inside a callable collected in pass
\* 1 yields exactly one output whose source is the innermost enclosing
\* collected callable: a Calls edge when exactly one callable of the file has
\* the callee's short name, otherwise one unresolved reference with the ids
\* of the candidates (none when no callable has the name); and the walk of
\* any subtree leaves the scope stack as it found it.
C30_OneOutputPerCall ==
    pc = "nodes" =>
        /\ \A site \in CallSites(Tree(run.text), detect_language(run.cur),
                                 run.batch, None) :
               OneOutput(run.batch, site)
        /\ \A node \in Subtrees(Tree(run.text)), scope_stack \in StacksTried :
               walk_tree_calls(node, detect_language(run.cur), run.batch.index,
                               scope_stack).scope_stack = scope_stack

\* The options of the running call, with max_depth one more.
OneDeeper(s) ==
    [max_depth |-> << MaxDepthOf(s) + 1 >>, edge_kinds |-> s.edge_kinds,
     node_kinds |-> s.node_kinds, direction |-> s.direction, limit |-> s.limit,
     include_start |-> s.include_start]

\* C33: for a fixed store, fixed roots and otherwise equal options, the
\* nodes build_subgraph returns with max_depth d are among the nodes it
\* returns with max_depth d + 1.
C33_DeeperWalkHasMoreNodes ==
    sub.pc = "done" =>
        sub.nodes \subseteq build_subgraph(sub.conn, sub.roots, OneDeeper(sub)).nodes

\* A walk cut short by its edge limit has returned, and the walk one level
\* deeper returns a node that it has not.
C33_Witness ==
    /\ sub.pc = "done"
    /\ sub.limit # << >> /\ Len(sub.edges) = LimitOf(sub)
    /\ sub.nodes # {}
    /\ build_subgraph(sub.conn, sub.roots, OneDeeper(sub)).nodes \ sub.nodes # {}

\* C39: the edge list of build_subgraph has each stored edge at most once,
\* also with direction Both when both ends of an edge are expanded, and for
\* an edge from a node to itself.
C39_EachEdgeOnce ==
    sub.pc = "done" =>
        \A i, j \in DOMAIN sub.edges : sub.edges[i] = sub.edges[j] => i = j

\* The buckets of a reference in the order of their rank: the Export nodes
\* stored for the import hint's module path and export name, then the
\* callables of the reference's name whose file matches the hint, that are in
\* the caller's file, that are in its directory, and all of them.
Buckets(d, ref) ==
    LET from_node == get_node_by_id(d, ref.from_node_id)
        hint == import_match_hint(d, from_node, ref.reference_name)
        named == {n \in d.nodes : /\ n.name = ref.reference_name
                                  /\ n.kind \in {"function", "method"}}
    IN  << IF hint = NoRow THEN {}
           ELSE {n \in d.nodes :
                    /\ n.kind = "export"
                    /\ n.signature = << hint.module_path >>
                    /\ n.name = IF hint.export_name = None THEN ref.reference_name
                                ELSE hint.export_name},
           IF hint = NoRow THEN {}
           ELSE {n \in named : matches_import_hint(n.file_path, hint.module_path)},
           {n \in named : n.file_path = from_node.file_path},
           {n \in named : Parent(n.file_path) = Parent(from_node.file_path)},
           named >>

\* The first bucket that is not empty (the last one when all are).
TopBucket(d, ref) ==
    LET buckets == Buckets(d, ref)
        filled == {k \in DOMAIN buckets : buckets[k] # {}}
    IN  IF filled = {} THEN {}
        ELSE buckets[CHOOSE k \in filled : \A j \in filled : k <= j]

\* The Calls edge that promotes the reference to the node.
PromotedTo(ref, n) ==
    [source |-> ref.from_node_id, target |-> n.id, kind |-> "calls",
     line |-> ref.line, col |-> ref.col]

RefG == RefTo(CallerF.id, "g", 1)

\* C32: a stored unresolved reference whose top-ranked bucket has exactly
\* one candidate is promoted to a Calls edge after finitely many further
\* resolver passes, however many other references the store holds and
\* whatever the cap of a pass.
C32_BindableIsEventuallyBound ==
    (/\ RefG \in Range(db.unresolved_refs)
     /\ Cardinality(TopBucket(db, RefG)) = 1)
        ~> (\E n \in db.nodes : PromotedTo(RefG, n) \in BagToSet(db.edges))

\* The rows a pass reads: the first ResolveLimit of the table.
InReach(ref) ==
    \E i \in DOMAIN db.unresolved_refs :
        i <= ResolveLimit /\ db.unresolved_refs[i] = ref

\* No stored reference has lost its source node.
NoStale ==
    \A i \in DOMAIN db.unresolved_refs :
        get_node_by_id(db, db.unresolved_refs[i].from_node_id) # NoRow

\* What the passes do achieve: a bindable reference among the rows a pass
\* reads is promoted, when no row of the store has lost its source node.
ReadRowsAreBound ==
    (/\ RefG \in Range(db.unresolved_refs)
     /\ Cardinality(TopBucket(db, RefG)) = 1
     /\ InReach(RefG)
     /\ NoStale)
        ~> (\E n \in db.nodes : PromotedTo(RefG, n) \in BagToSet(db.edges))

\* The stored references whose source is a stored node of the path.
RefsOfFile(d, path) ==
    SelectSeq(d.unresolved_refs,
              LAMBDA ref : \E n \in d.nodes :
                              n.id = ref.from_node_id /\ n.file_path = path)

\* index_file completes for a path that was tracked with another content.
ReindexedModified ==
    /\ pc = "record"
    /\ pc' = "loop"
    /\ TrackedRecord(run.tracked, run.cur) # NoRow
    /\ db'.files # db.files

\* C38: in every reachable store state the from_node_id of every unresolved
\* reference is the id of a stored node, and re-indexing a modified file
\* leaves exactly the unresolved references of its new content for that
\* file, none left over and none twice.
C38_RefsFollowTheirFile ==
    /\ [](\A i \in DOMAIN db.unresolved_refs :
              get_node_by_id(db, db.unresolved_refs[i].from_node_id) # NoRow)
    /\ [][ReindexedModified =>
              SeqToBag(RefsOfFile(db', run.cur)) = SeqToBag(RefsBatch)]_vars

\* The call of the reference is in the store: as a row of unresolved_refs or
\* as a Calls edge from its source at its position.
Represented(d, ref) ==
    \/ ref \in Range(d.unresolved_refs)
    \/ \E e \in BagToSet(d.edges) :
          /\ e.kind = "calls"
          /\ e.source = ref.from_node_id
          /\ e.line = ref.line
          /\ e.col = ref.col

\* The run at hand found path b tracked with another content and indexed it
\* again, and found path a tracked with the content it has.
ReindexedBeside(a, b) ==
    /\ a # b
    /\ b \in run.parsed
    /\ TrackedRecord(run.tracked, b) # NoRow
    /\ fs[a] # NoFile
    /\ a \notin run.parsed
    /\ TrackedRecord(run.tracked, a) # NoRow
    /\ TrackedRecord(run.tracked, a).content_hash = hash_sha256(fs[a])

\* The callables that the store holds for the path under the name.
CallablesOf(d, path, name) ==
    {n \in d.nodes : n.file_path = path /\ n.name = name /\ is_callable_kind(n.kind)}

\* C36: when a run has re-indexed the modified file b and the unchanged file
\* a has a call of a callable of b, the call is in the store when the run
\* returns: as a Calls edge from a's callable or as an unresolved reference.
C36_CallsIntoReindexedFileStay ==
    (pc = "return" /\ ~run.aborted /\ run.errors = 0) =>
        \A a, b \in Paths :
            ReindexedBeside(a, b) =>
                \A ref \in Range(ExtractedFrom(a, fs[a]).refs) :
                    CallablesOf(db, b, ref.reference_name) # {}
                        => Represented(db, ref)

\* index_file gets through its checks with the text: it can be read as
\* UTF-8 and is within max_file_size.
Readable(c) == IsUtf8(c) /\ ContentLen(c) <= MaxFileSize

\* The store has the File record of the path with the hash of its text.
IndexedAsItIs(d, path) ==
    /\ get_file_record(d, path) # NoRow
    /\ get_file_record(d, path).content_hash = hash_sha256(fs[path])

\* C37: a past failure never makes a file un-indexable for good.  When a
\* store operation failed in the previous run (after some of the file's rows
\* were committed), an index_all with force = false or a sync on the same
\* tree, in which no operation fails, indexes every file of the tree.
C37_FailedFilesAreIndexedLater ==
    (/\ pc = "return"
     /\ ~run.force
     /\ ~run.faulted
     /\ prev.mode # None
     /\ prev.faulted
     /\ ~prev.changed
     /\ \A p \in Paths : fs[p] # NoFile => Readable(fs[p]))
        => \A p \in Paths : fs[p] # NoFile => IndexedAsItIs(db, p)

\* The loop of index_all over the scanned paths when no write fails (the
\* rows written do not depend on the order of the paths).
RECURSIVE index_files(_, _)
index_files(d, todo) ==
    IF todo = {} THEN d
    ELSE LET p == CHOOSE q \in todo : TRUE
         IN  index_files(IF index_file_check(d, p, fs[p]) = "go"
                         THEN index_file_writes(d, p, fs[p])
                         ELSE d,
                         todo \ {p})

\* resolve_unresolved, lines 21-85, as one function of the store.
resolve_unresolved(d, limit) ==
    LET edges == ResolvedEdges(d, limit)
    IN  IF edges = << >> \/ ~EdgesInsertable(d, edges)
        THEN insert_edges(d, edges)
        ELSE delete_unresolved_refs(insert_edges(d, edges), ResolvedIds(d, limit))

\* index_all with force = true on the tree as it is, every write succeeding:
\* what is parsed and written, and what its resolver pass makes of it.
RebuildParsed == index_files(clear_database(db), scan_directory)
Rebuild == resolve_unresolved(RebuildParsed, ResolveLimit)

\* File records as (path, content hash).
FileHashes(d) == {<< f.path, f.content_hash >> : f \in d.files}

\* C35: after a successful sync, the File records (path, content hash), the
\* nodes, the edges and the unresolved references of the store are those of
\* index_all with force = true on the same tree.  Stated for trees whose
\* references one resolver pass reads in full, and for the rows as sets.
C35_SyncEqualsRebuild ==
    (/\ pc = "return"
     /\ run.mode = "sync"
     /\ ~run.aborted
     /\ run.resolver = "ok"
     /\ Len(RebuildParsed.unresolved_refs) <= ResolveLimit)
        => /\ FileHashes(db) = FileHashes(Rebuild)
           /\ db.nodes = Rebuild.nodes
           /\ BagToSet(db.edges) = BagToSet(Rebuild.edges)
           /\ Range(db.unresolved_refs) = Range(Rebuild.unresolved_refs)

\* The last command was an edit of a memory with a mode and a pattern that
\* the tool accepts.
EditedMemory ==
    /\ proj.last.op = "edit_memory"
    /\ proj.last.mode \in {"literal", "regex"}
    /\ proj.last.mode = "regex" => IsRegex(proj.last.pattern)

\* C34: the edit-memory tool applied to a memory that exists rewrites it
\* with the replacement applied, whatever its text, and reports not-found
\* only when the memory file does not exist.
C34_EditRewritesExistingMemory ==
    EditedMemory =>
        /\ proj.last.before # << >> =>
              /\ proj.last.result = "ok"
              /\ proj.memories[proj.last.name] =
                    << replace(proj.last.before[1], proj.last.pattern,
                               proj.last.replacement) >>
        /\ proj.last.result = "not_found" => proj.last.before = << >>

\* What the tool does achieve: the claim for memories whose text does not
\* have the phrase "not found".
EditRewritesOtherTexts ==
    (EditedMemory /\ proj.last.before # << >>
        /\ ~contains(proj.last.before[1], "not found"))
        => /\ proj.last.result = "ok"
           /\ proj.memories[proj.last.name] =
                 << replace(proj.last.before[1], proj.last.pattern,
                            proj.last.replacement) >>

\* init has written the configuration and created the database.
InitHasRun == proj.config /\ proj.database = "schema"

\* C40: a project is treated as initialized only after init has written the
\* configuration and created the database: index, sync and tools/call go
\* ahead, and init declines with "already initialized", only on such a
\* project, also after an MCP server was started or built its tool registry
\* on the project.
C40_InitializedOnlyAfterInit ==
    /\ []((/\ proj.last.op \in {"index", "sync", "tools_call"}
           /\ proj.last.initialized) => InitHasRun)
    /\ [][(proj'.last.op = "init" /\ proj.data_dir) => InitHasRun]_vars
====
